---- MODULE Spec2Model ----
\* Model of ChunkingService (src/services/document_processing/chunking_service.py).
\* Text is a sequence of character codes (code points), so that the regular
\* expressions and str.strip() of the source are modelled by what they do to
\* characters.
EXTENDS Integers, Sequences, FiniteSets, TLC

\* ------------------------------------------------------------------ bounds
\* longest raw text drawn character by character from CharAlphabet
MaxLen == 5
\* most lines of a raw text drawn line by line from LinePool
MaxLines == 3
\* longest section list handed directly to _merge_small_chunks
MaxSections == 3
\* largest min_chunk_size handed directly to _merge_small_chunks
MaxMin == 3
\* most lines of the texts that are chunked under every metadata mapping
MaxMetaLines == 2
\* longest block over the block alphabet handed to _is_table
MaxBlock == 4
\* most pieces of a text handed directly to _clean_table_formatting
MaxPieces == 4
\* most documents of a batch handed to chunk_all_documents
MaxDocs == 2
\* blobs in the container
MaxBlobs == 3
\* most chunks handed directly to the embedding and indexing services
MaxChunks == 3
\* largest batch size tried, the default apart
MaxBatch == 2
\* most blobs in a container the whole pipeline is run on
MaxPipelineBlobs == 2

\* ------------------------------------------------------------------ characters
TAB == 9
NL == 10
SP == 32
HASH == 35
\* min_chunk_size: int = 100
DefaultMinChunkSize == 100
DefaultBatchSize == 100

\* "<", ">", "a" and the tags the table regexes name
LT == 60
PIPE == 124
GT == 62
TableOpen == <<60, 116, 97, 98, 108, 101, 62>>
TableClose == <<60, 47, 116, 97, 98, 108, 101, 62>>
TrClose == <<60, 47, 116, 114, 62>>
TrOpen == <<60, 116, 114, 62>>

\* Python's Unicode whitespace (str.isspace, and \s of a str pattern), Latin-1 part
SpaceChars == 9..13 \cup 28..32 \cup {133, 160}

IsSpace(c) == c \in SpaceChars

\* [\x00-\x08\x0B\x0C\x0E-\x1F\x7F]
IsControl(c) == c \in 0..8 \/ c \in 11..12 \/ c \in 14..31 \/ c = 127

\* [ \t]
SpTabChars == {SP, TAB}

IsSpTab(c) == c \in SpTabChars

\* ------------------------------------------------------------------ helpers
Max(S) == CHOOSE x \in S : \A y \in S : y <= x

Min(S) == CHOOSE x \in S : \A y \in S : x <= y

\* str.strip(): drop leading and trailing whitespace
Strip(s) ==
    LET keep == {i \in 1..Len(s) : ~IsSpace(s[i])}
    IN IF keep = {} THEN <<>> ELSE SubSeq(s, Min(keep), Max(keep))

\* the position after the maximal run of characters of the class that starts at i
RunEnd(s, i, class) ==
    LET stop == {j \in i..Len(s) : s[j] \notin class}
    IN IF stop = {} THEN Len(s) + 1 ELSE Min(stop)

\* s[i..] starts with the literal lit
StartsAt(s, i, lit) ==
    /\ i + Len(lit) - 1 <= Len(s)
    /\ \A k \in 1..Len(lit) : s[i + k - 1] = lit[k]

\* re.sub(pattern, repl, s) for a pattern that matches no empty string: me[i] is
\* the position after the match that starts at i, or 0 when none starts there;
\* matches are taken leftmost, one after the other, without overlap, and the text
\* between two matches is copied
RECURSIVE ReSubFrom(_, _, _, _)
ReSubFrom(s, me, repl, pos) ==
    LET starts == {p \in pos..Len(s) : me[p] > 0}
    IN IF starts = {} THEN SubSeq(s, pos, Len(s))
       ELSE SubSeq(s, pos, Min(starts) - 1) \o repl \o ReSubFrom(s, me, repl, me[Min(starts)])

ReSub(s, me, repl) == ReSubFrom(s, me, repl, 1)

\* ------------------------------------------------------------------ _clean_text
\* re.sub(r'[\x00-\x08\x0B\x0C\x0E-\x1F\x7F]', '', text)
StripControl(text) == SelectSeq(text, LAMBDA c : ~IsControl(c))

\* r'[ \t]+' at i (greedy)
MatchSpTabRun(s) ==
    [i \in 1..Len(s) |-> IF IsSpTab(s[i]) THEN RunEnd(s, i, SpTabChars) ELSE 0]

\* r'\n\s*?\n' at i: stops at the first newline that follows
MatchBlankLinesLazy(s) ==
    [i \in 1..Len(s) |->
        IF s[i] # NL THEN 0
        ELSE LET e == RunEnd(s, i, SpaceChars)
                 nls == {j \in (i + 1)..(e - 1) : s[j] = NL}
             IN IF nls = {} THEN 0 ELSE Min(nls) + 1]

\* r'\n\s*\n' at i: greedy \s* backtracks to the last newline of the whitespace run
MatchBlankLines(s) ==
    [i \in 1..Len(s) |->
        IF s[i] # NL THEN 0
        ELSE LET e == RunEnd(s, i, SpaceChars)
                 nls == {j \in (i + 1)..(e - 1) : s[j] = NL}
             IN IF nls = {} THEN 0 ELSE Max(nls) + 1]

CollapseSpaces(text) == ReSub(text, MatchSpTabRun(text), <<SP>>)

CollapseBlankLines(text) == ReSub(text, MatchBlankLines(text), <<NL, NL>>)

\* control characters are removed after the whitespace is collapsed
CleanTextControlLast(text) ==
    Strip(StripControl(CollapseBlankLines(CollapseSpaces(text))))

_clean_text(text) == Strip(CollapseBlankLines(CollapseSpaces(StripControl(text))))

\* ------------------------------------------------------------------ _split_by_headers_manual
\* text.split('\n')
RECURSIVE SplitLinesFrom(_, _)
SplitLinesFrom(s, pos) ==
    LET nls == {j \in pos..Len(s) : s[j] = NL}
    IN IF nls = {} THEN <<SubSeq(s, pos, Len(s))>>
       ELSE <<SubSeq(s, pos, Min(nls) - 1)>> \o SplitLinesFrom(s, Min(nls) + 1)

SplitLines(s) == SplitLinesFrom(s, 1)

\* '\n'.join(lines)
RECURSIVE JoinLines(_)
JoinLines(lines) ==
    IF lines = <<>> THEN <<>>
    ELSE IF Len(lines) = 1 THEN lines[1]
    ELSE lines[1] \o <<NL>> \o JoinLines(Tail(lines))

\* r'(.+)$' from position p: one or more characters other than newline, up to
\* the end of the string or to a newline that ends the string
DotPlusToEnd(s, p) ==
    \E e \in {Len(s), Len(s) - 1} :
        /\ p <= e
        /\ e = Len(s) \/ s[Len(s)] = NL
        /\ \A j \in p..e : s[j] # NL

\* re.match(r'^(#{1,4})\s+(.+)$', s)
MatchesHeaderPattern(s) ==
    \E k \in 1..4 :
        /\ k <= Len(s)
        /\ \A j \in 1..k : s[j] = HASH
        /\ \E m \in 1..(Len(s) - k) :
              /\ \A j \in (k + 1)..(k + m) : IsSpace(s[j])
              /\ DotPlusToEnd(s, k + m + 1)

\* the line is matched as it stands
IsHeaderLineUntrimmed(line) == MatchesHeaderPattern(line)

\* re.match(header_pattern, line_stripped) with line_stripped = line.strip()
IsHeaderLine(line) == MatchesHeaderPattern(Strip(line))

\* the section is appended even when it is empty
CloseSectionKeepsEmpty(sections, current_section) ==
    IF current_section = <<>> THEN sections
    ELSE Append(sections, Strip(JoinLines(current_section)))

\* section_text = '\n'.join(current_section).strip(); appended if not empty
CloseSection(sections, current_section) ==
    IF current_section = <<>> THEN sections
    ELSE LET section_text == Strip(JoinLines(current_section))
         IN IF section_text # <<>> THEN Append(sections, section_text) ELSE sections

\* the for loop over the lines, then "Agregar la ultima seccion"
RECURSIVE SplitLoop(_, _, _, _)
SplitLoop(lines, k, sections, current_section) ==
    IF k > Len(lines) THEN CloseSection(sections, current_section)
    ELSE IF IsHeaderLine(lines[k])
         THEN SplitLoop(lines, k + 1, CloseSection(sections, current_section), <<lines[k]>>)
         ELSE SplitLoop(lines, k + 1, sections, Append(current_section, lines[k]))

\* the sections without the text before the first header
SplitDropsPreamble(text) ==
    LET lines == SplitLines(text)
        all == SplitLoop(lines, 1, <<>>, <<>>)
    IN IF all # <<>> /\ ~IsHeaderLine(lines[1]) THEN Tail(all) ELSE all

_split_by_headers_manual(text) == SplitLoop(SplitLines(text), 1, <<>>, <<>>)

\* ------------------------------------------------------------------ _clean_table_formatting
\* r'>\s*\n\s*<' at i
MatchTagBreak(s) ==
    [i \in 1..Len(s) |->
        IF s[i] # GT THEN 0
        ELSE LET e == RunEnd(s, i + 1, SpaceChars)
             IN IF e <= Len(s) /\ s[e] = LT /\ \E j \in (i + 1)..(e - 1) : s[j] = NL
                THEN e + 1 ELSE 0]

\* r'</tr>\s*\n\s*' at i
MatchRowEnd(s) ==
    [i \in 1..Len(s) |->
        IF ~StartsAt(s, i, TrClose) THEN 0
        ELSE LET e == RunEnd(s, i + Len(TrClose), SpaceChars)
             IN IF \E j \in (i + Len(TrClose))..(e - 1) : s[j] = NL THEN e ELSE 0]

\* r'>\s+' at i
MatchAfterTag(s) ==
    [i \in 1..Len(s) |->
        IF s[i] = GT /\ i < Len(s) /\ IsSpace(s[i + 1])
        THEN RunEnd(s, i + 1, SpaceChars) ELSE 0]

\* r'\s+<' at i
MatchBeforeTag(s) ==
    [i \in 1..Len(s) |->
        IF ~IsSpace(s[i]) THEN 0
        ELSE LET e == RunEnd(s, i, SpaceChars)
             IN IF e <= Len(s) /\ s[e] = LT THEN e + 1 ELSE 0]

\* the tags' brackets are lost with the line break
JoinTagsDropsBrackets(table_content) ==
    ReSub(table_content, MatchTagBreak(table_content), <<>>)

JoinTags(table_content) == ReSub(table_content, MatchTagBreak(table_content), <<GT, LT>>)

KeepRowBreak(table_content) ==
    ReSub(table_content, MatchRowEnd(table_content), TrClose \o <<NL>>)

TrimAfterTag(table_content) == ReSub(table_content, MatchAfterTag(table_content), <<GT>>)

TrimBeforeTag(table_content) == ReSub(table_content, MatchBeforeTag(table_content), <<LT>>)

clean_table_block(table_content) ==
    TrimBeforeTag(TrimAfterTag(KeepRowBreak(JoinTags(table_content))))

\* r'<table>.*</table>' with re.DOTALL at i: up to the last </table> after the tag
MatchTableGreedy(s) ==
    [i \in 1..Len(s) |->
        IF ~StartsAt(s, i, TableOpen) THEN 0
        ELSE LET closes == {j \in (i + Len(TableOpen))..Len(s) : StartsAt(s, j, TableClose)}
             IN IF closes = {} THEN 0 ELSE Max(closes) + Len(TableClose)]

\* r'<table>.*?</table>' with re.DOTALL at i: up to the first </table> after the tag
MatchTable(s) ==
    [i \in 1..Len(s) |->
        IF ~StartsAt(s, i, TableOpen) THEN 0
        ELSE LET closes == {j \in (i + Len(TableOpen))..Len(s) : StartsAt(s, j, TableClose)}
             IN IF closes = {} THEN 0 ELSE Min(closes) + Len(TableClose)]

\* re.sub(r'<table>.*?</table>', clean_table_block, text, flags=re.DOTALL)
RECURSIVE SubTablesFrom(_, _, _)
SubTablesFrom(s, me, pos) ==
    LET starts == {p \in pos..Len(s) : me[p] > 0}
    IN IF starts = {} THEN SubSeq(s, pos, Len(s))
       ELSE SubSeq(s, pos, Min(starts) - 1)
            \o clean_table_block(SubSeq(s, Min(starts), me[Min(starts)] - 1))
            \o SubTablesFrom(s, me, me[Min(starts)])

_clean_table_formatting(text) == SubTablesFrom(text, MatchTable(text), 1)

\* ------------------------------------------------------------------ _is_table

\* "\begin{tabular}"
BeginTabular == <<92, 98, 101, 103, 105, 110, 123, 116, 97, 98, 117, 108, 97, 114, 125>>

\* lit in s
Contains(s, lit) == \E k \in 1..Len(s) : StartsAt(s, k, lit)

\* re.search(r"\|.*\|", block) with "." matching a newline too
SearchPipesAcrossLines(block) ==
    \E a, b \in 1..Len(block) : a < b /\ block[a] = PIPE /\ block[b] = PIPE

\* re.search(r"\|.*\|", block): two pipes with no newline between them
SearchPipes(block) ==
    \E a, b \in 1..Len(block) :
        /\ a < b
        /\ block[a] = PIPE
        /\ block[b] = PIPE
        /\ \A k \in (a + 1)..(b - 1) : block[k] # NL

\* a detector that knows HTML tables too
IsTableWithHtml(block) ==
    \/ SearchPipes(block)
    \/ Contains(block, <<TAB>>)
    \/ Contains(block, BeginTabular)
    \/ Contains(block, TableOpen)

_is_table(block) ==
    \/ SearchPipes(block)
    \/ Contains(block, <<TAB>>)
    \/ Contains(block, BeginTabular)

\* ------------------------------------------------------------------ _merge_small_chunks
\* the size is taken without trimming
MergesWithNextUntrimmed(sections, min_size, idx) ==
    Len(sections[idx + 1]) < min_size /\ idx + 1 < Len(sections)

\* len(current_section.strip()) < min_chunk_size and i + 1 < len(sections); i is 0-based
MergesWithNext(sections, min_size, idx) ==
    Len(Strip(sections[idx + 1])) < min_size /\ idx + 1 < Len(sections)

\* joined by a single newline
CombineOneNewline(current_section, next_section) ==
    current_section \o <<NL>> \o next_section

\* combined_section = current_section + "\n\n" + next_section
Combine(current_section, next_section) ==
    current_section \o <<NL, NL>> \o next_section

\* a merged pair that is still small takes the section after it as well
MergeStepRemerges(sections, min_size, idx, merged) ==
    IF MergesWithNext(sections, min_size, idx)
    THEN LET pair == Combine(sections[idx + 1], sections[idx + 2])
         IN IF Len(Strip(pair)) < min_size /\ idx + 2 < Len(sections)
            THEN [merged_sections |-> Append(merged, Combine(pair, sections[idx + 3])),
                  i |-> idx + 3]
            ELSE [merged_sections |-> Append(merged, pair), i |-> idx + 2]
    ELSE [merged_sections |-> Append(merged, sections[idx + 1]), i |-> idx + 1]

\* one iteration of the while loop: the list appended to and the index advanced
MergeStep(sections, min_size, idx, merged) ==
    IF MergesWithNext(sections, min_size, idx)
    THEN [merged_sections |-> Append(merged, Combine(sections[idx + 1], sections[idx + 2])),
          i |-> idx + 2]
    ELSE [merged_sections |-> Append(merged, sections[idx + 1]), i |-> idx + 1]

\* ------------------------------------------------------------------ chunk_document
\* only the keys of b are kept
MergeDictsDropsFirst(a, b) == b

\* {**a, **b}: the keys of b win
MergeDicts(a, b) ==
    [k \in DOMAIN a \cup DOMAIN b |-> IF k \in DOMAIN b THEN b[k] ELSE a[k]]

\* sections numbered from 1
RECURSIVE BuildSectionsFromOne(_, _)
BuildSectionsFromOne(texts, idx) ==
    IF idx >= Len(texts) THEN <<>>
    ELSE IF Strip(texts[idx + 1]) # <<>>
         THEN <<[page_content |-> _clean_table_formatting(Strip(texts[idx + 1])),
                 metadata |-> [section_index |-> idx + 1]]>>
              \o BuildSectionsFromOne(texts, idx + 1)
         ELSE BuildSectionsFromOne(texts, idx + 1)

\* for i, text in enumerate(section_texts): if text.strip(): sections.append(...)
RECURSIVE BuildSections(_, _)
BuildSections(texts, idx) ==
    IF idx >= Len(texts) THEN <<>>
    ELSE IF Strip(texts[idx + 1]) # <<>>
         THEN <<[page_content |-> _clean_table_formatting(Strip(texts[idx + 1])),
                 metadata |-> [section_index |-> idx]]>> \o BuildSections(texts, idx + 1)
         ELSE BuildSections(texts, idx + 1)

\* the counter is not advanced
SameChunkIndex(chunk_index) == chunk_index

\* chunk_index += 1
NextChunkIndex(chunk_index) == chunk_index + 1

\* the Document built for one section
ChunkDoc(doc, section, chunk_index) ==
    [page_content |-> section.page_content,
     metadata |-> MergeDicts(doc.metadata,
                    [chunk_index |-> chunk_index,
                     chunk_type |-> "header_section",
                     original_length |-> Len(doc.page_content),
                     section_index |-> section.metadata.section_index])]

\* for section in sections: chunk_documents.append(chunk_doc); chunk_index += 1
RECURSIVE AssembleFrom(_, _, _, _)
AssembleFrom(doc, secs, k, chunk_index) ==
    IF k > Len(secs) THEN <<>>
    ELSE <<ChunkDoc(doc, secs[k], chunk_index)>>
         \o AssembleFrom(doc, secs, k + 1, NextChunkIndex(chunk_index))

Assemble(doc, secs) == AssembleFrom(doc, secs, 1, 0)

\* _merge_small_chunks as a function: the loop run from index idx to the end
RECURSIVE MergeFrom(_, _, _, _)
MergeFrom(secs, min_size, idx, merged) ==
    IF ~(idx < Len(secs)) THEN merged
    ELSE LET step == MergeStep(secs, min_size, idx, merged)
         IN MergeFrom(secs, min_size, step.i, step.merged_sections)

_merge_small_chunks(secs, min_size) ==
    IF secs = <<>> THEN secs ELSE MergeFrom(secs, min_size, 0, <<>>)

\* chunk_document as a function of its argument
chunk_document(doc) ==
    LET split == _split_by_headers_manual(_clean_text(doc.page_content))
    IN Assemble(doc, BuildSections(_merge_small_chunks(split, DefaultMinChunkSize), 0))

\* all_chunks with the chunks put in front
ExtendInFront(all, chunks) == chunks \o all

\* all_chunks.extend(chunks)
Extend(all, chunks) == all \o chunks

\* ------------------------------------------------------------------ extraction
\* ".pdf"
PdfSuffix == <<46, 112, 100, 102>>

\* str.lower() on the letters A-Z
Lower(s) == [k \in 1..Len(s) |-> IF s[k] \in 65..90 THEN s[k] + 32 ELSE s[k]]

\* s.endswith(suffix)
EndsWith(s, suffix) ==
    Len(s) >= Len(suffix) /\ SubSeq(s, Len(s) - Len(suffix) + 1, Len(s)) = suffix

\* metadata.get('state', 'pending')
StateOf(metadata) == IF "state" \in DOMAIN metadata THEN metadata.state ELSE "pending"

\* every blob named .pdf is listed, whatever its state
RECURSIVE ListsProcessedToo(_, _, _)
ListsProcessedToo(container, names, k) ==
    IF k > Len(names) THEN <<>>
    ELSE (IF names[k] \in DOMAIN container /\ EndsWith(Lower(names[k]), PdfSuffix)
          THEN <<names[k]>> ELSE <<>>)
         \o ListsProcessedToo(container, names, k + 1)

\* list_pending_documents from the k-th listed blob on: the names of the blobs
\* whose name ends in .pdf, whatever the case, and whose state is 'pending'
RECURSIVE ListPendingFrom(_, _, _)
ListPendingFrom(container, names, k) ==
    IF k > Len(names) THEN <<>>
    ELSE (IF /\ names[k] \in DOMAIN container
             /\ EndsWith(Lower(names[k]), PdfSuffix)
             /\ StateOf(container[names[k]]) = "pending"
          THEN <<names[k]>> ELSE <<>>)
         \o ListPendingFrom(container, names, k + 1)

\* an update that marks every blob of the container
UpdateMarksEveryBlob(container, blob_name) ==
    [n \in DOMAIN container |-> MergeDicts(container[n], [state |-> "processed"])]

\* update_blob_state_to_processed when no call of it fails:
\* current_metadata['state'] = 'processed'; set_blob_metadata
update_blob_state_to_processed(container, blob_name) ==
    [container EXCEPT ![blob_name] = MergeDicts(@, [state |-> "processed"])]

\* the Document extract_with_document_intelligence builds for a blob whose
\* analysis returned the content "a" on one page
ExtractedDocument(blob_name) ==
    [page_content |-> <<97>>,
     metadata |-> [source |-> blob_name,
                   extraction_method |-> "document_intelligence_layout",
                   pages |-> 1,
                   file_path |-> <<47>> \o blob_name,
                   content_format |-> "markdown"]]

\* ------------------------------------------------------------------ embedding
\* [doc.page_content for doc in documents]
Contents(docs) == [k \in 1..Len(docs) |-> docs[k].page_content]

\* an entry of the embeddings list: a vector or None
SomeEmbedding(vector) == [is_none |-> FALSE, vector |-> vector]
NoEmbedding == [is_none |-> TRUE, vector |-> <<>>]

\* the vector the embedding client answers for a text
ClientVector(text) == <<Len(text), IF text = <<>> THEN 0 ELSE text[1]>>

\* texts[i:i + batch_size], i counted from 0
Slice(list, from, size) == SubSeq(list, from + 1, Min({from + size, Len(list)}))

\* a failed batch that adds nothing to all_embeddings
BatchEntriesDropsFailed(batch_texts, outcome) ==
    IF outcome = "raises" THEN <<>>
    ELSE [k \in 1..Len(batch_texts) |-> SomeEmbedding(ClientVector(batch_texts[k]))]

\* what one batch adds to all_embeddings: [data.embedding for data in
\* response.data], with response.data holding one vector per text or, for a
\* client that does not keep to that, all but the last one; [None] *
\* len(batch_texts) when the call raises
BatchEntries(batch_texts, outcome) ==
    CASE outcome = "ok" ->
            [k \in 1..Len(batch_texts) |-> SomeEmbedding(ClientVector(batch_texts[k]))]
      [] outcome = "short" ->
            [k \in 1..(Len(batch_texts) - 1) |-> SomeEmbedding(ClientVector(batch_texts[k]))]
      [] OTHER -> [k \in 1..Len(batch_texts) |-> NoEmbedding]

\* the loop over zip(documents, embeddings) from pair k on
RECURSIVE AttachFrom(_, _, _)
AttachFrom(docs, embeddings, k) ==
    IF k > Len(docs) \/ k > Len(embeddings) THEN <<>>
    ELSE (IF embeddings[k].is_none THEN <<>>
          ELSE <<[page_content |-> docs[k].page_content,
                  metadata |-> MergeDicts(docs[k].metadata,
                                          [embedding |-> embeddings[k].vector,
                                           embedding_dimension |-> Len(embeddings[k].vector)])]>>)
         \o AttachFrom(docs, embeddings, k + 1)

\* ------------------------------------------------------------------ indexing
\* str(n) for n >= 0
RECURSIVE DecimalOf(_)
DecimalOf(n) == IF n < 10 THEN <<48 + n>> ELSE DecimalOf(n \div 10) \o <<48 + (n % 10)>>

\* the characters a document key keeps: letters, digits, '_', '-', '='
KeyChars == 97..122 \cup 65..90 \cup 48..57 \cup {95, 45, 61}

\* _generate_safe_document_key: '.', '-' and ' ' become '_', then every
\* character outside KeyChars does, and "_{index}_{chunk_index}" is added
_generate_safe_document_key(source_name, index, chunk_index) ==
    [k \in 1..Len(source_name) |->
        IF source_name[k] \in {46, 45, 32} \/ source_name[k] \notin KeyChars
        THEN 95 ELSE source_name[k]]
        \o <<95>> \o DecimalOf(index) \o <<95>> \o DecimalOf(chunk_index)

\* dict.get(key, default)
Get(dict, key, default) == IF key \in DOMAIN dict THEN dict[key] ELSE default

\* the default 'unknown' of a missing metadata key
Unknown == <<117, 110, 107, 110, 111, 119, 110>>

\* the preparation loop from document k on: a document without an embedding is
\* skipped, any other one becomes a search document (its json metadata field
\* is left out)
RECURSIVE PrepareFrom(_, _)
PrepareFrom(docs, k) ==
    IF k > Len(docs) THEN <<>>
    ELSE (IF "embedding" \notin DOMAIN docs[k].metadata THEN <<>>
          ELSE LET source_name == Get(docs[k].metadata, "source", Unknown)
                   chunk_index == Get(docs[k].metadata, "chunk_index", 0)
               IN <<[chunk_id |-> _generate_safe_document_key(source_name, k - 1, chunk_index),
                     parent_id |-> source_name,
                     chunk |-> docs[k].page_content,
                     title |-> source_name,
                     source |-> source_name,
                     chunk_type |-> Get(docs[k].metadata, "chunk_type", Unknown),
                     chunk_index |-> chunk_index,
                     text_vector |-> docs[k].metadata.embedding]>>)
         \o PrepareFrom(docs, k + 1)

\* merge_or_upload_documents: the documents of the batch that succeeded
\* replace those of the same key and are added to the index
MergeOrUpload(index, batch_docs, succeeded) ==
    {d \in index : \A k \in succeeded : batch_docs[k].chunk_id # d.chunk_id}
        \cup {batch_docs[k] : k \in succeeded}

\* a result that asks for two indexed documents
SucceededTwice(successful_indexes) == successful_indexes > 1

\* return successful_indexes > 0
IndexingSucceeded(successful_indexes) == successful_indexes > 0

\* ------------------------------------------------------------------ inputs
\* a control character, tab, newline, space, a letter
CharAlphabet == {1, TAB, NL, SP, 97}

RECURSIVE SeqsUpTo(_, _)
SeqsUpTo(S, n) ==
    IF n = 0 THEN {<<>>}
    ELSE LET shorter == SeqsUpTo(S, n - 1)
         IN shorter \cup {Append(q, x) : q \in {r \in shorter : Len(r) = n - 1}, x \in S}

\* a line as long as the default threshold
LongLine == [k \in 1..DefaultMinChunkSize |-> 97]

\* "", "a", "# a", " # a", "##### a", "a\r", a long line, "<table>",
\* "<table> <tr>a</tr> </table>b"
LinePool ==
    { <<>>, <<97>>, <<HASH, SP, 97>>, <<SP, HASH, SP, 97>>,
      <<HASH, HASH, HASH, HASH, HASH, SP, 97>>, <<97, 13>>, LongLine, TableOpen,
      TableOpen \o <<SP>> \o TrOpen \o <<97>> \o TrClose \o <<SP>> \o TableClose \o <<98>> }

\* "# A\nbody1\n## B\nbody2"
HeaderFixture ==
    <<HASH, SP, 65, NL, 98, 111, 100, 121, 49, NL, HASH, HASH, SP, 66, NL, 98, 111, 100, 121, 50>>

\* "Intro line."
IntroSection ==
    <<73, 110, 116, 114, 111, 32, 108, 105, 110, 101, 46>>

\* "# Section One\nShort."
SectionOne ==
    <<35, 32, 83, 101, 99, 116, 105, 111, 110, 32, 79, 110, 101, 10, 83, 104, 111, 114,
      116, 46>>

\* "## Sub\nThis is a longer paragraph exceeding the minimum character threshold easily."
SubSection ==
    <<35, 35, 32, 83, 117, 98, 10, 84, 104, 105, 115, 32, 105, 115, 32, 97, 32, 108,
      111, 110, 103, 101, 114, 32, 112, 97, 114, 97, 103, 114, 97, 112, 104, 32, 101,
      120, 99, 101, 101, 100, 105, 110, 103, 32, 116, 104, 101, 32, 109, 105, 110, 105,
      109, 117, 109, 32, 99, 104, 97, 114, 97, 99, 116, 101, 114, 32, 116, 104, 114,
      101, 115, 104, 111, 108, 100, 32, 101, 97, 115, 105, 108, 121, 46>>

\* the three joined by blank lines
EndToEndFixture == IntroSection \o <<NL, NL>> \o SectionOne \o <<NL, NL>> \o SubSection

Texts ==
    SeqsUpTo(CharAlphabet, MaxLen)
        \cup {JoinLines(ls) : ls \in SeqsUpTo(LinePool, MaxLines) \ {<<>>}}
        \cup {HeaderFixture, EndToEndFixture}

\* blocks handed to _is_table
TabFixture == <<97, 9, 98, 9, 99>>                       \* "a\tb\tc"
PipeFixture ==                                           \* "| h1 | h2 |\n|---|---|"
    <<124, 32, 104, 49, 32, 124, 32, 104, 50, 32, 124, 10, 124, 45, 45, 45, 124, 45, 45, 45, 124>>
ProseFixture ==                                          \* "plain prose sentence."
    <<112, 108, 97, 105, 110, 32, 112, 114, 111, 115, 101, 32, 115, 101, 110, 116, 101,
      110, 99, 101, 46>>
HtmlTableFixture ==                                      \* "<table><tr><td>a</td></tr></table>"
    <<60, 116, 97, 98, 108, 101, 62, 60, 116, 114, 62, 60, 116, 100, 62, 97, 60, 47, 116,
      100, 62, 60, 47, 116, 114, 62, 60, 47, 116, 97, 98, 108, 101, 62>>
BlockAlphabet == {PIPE, NL, TAB, 97}
BlockFixtures ==
    { TabFixture, PipeFixture, ProseFixture, HtmlTableFixture,
      BeginTabular, <<97>> \o BeginTabular \o <<97>>, SubSeq(BeginTabular, 1, 14),
      HtmlTableFixture \o <<NL, PIPE, 97, PIPE>>, TableOpen \o <<TAB>> \o TableClose }
Blocks == SeqsUpTo(BlockAlphabet, MaxBlock) \cup BlockFixtures

\* texts handed to _clean_table_formatting: concatenations of a few pieces, and
\* two tables with text between them
RECURSIVE Flatten(_)
Flatten(ss) == IF ss = <<>> THEN <<>> ELSE Head(ss) \o Flatten(Tail(ss))

TablePieces == {TableOpen, TableClose, TrClose, <<NL>>, <<SP>>, <<97>>, <<GT>>}

TwoTables ==                               \* "<table> a</table>> \n<<table></tr> \n a</table>\n"
    TableOpen \o <<SP, 97>> \o TableClose \o <<GT, SP, NL, LT>>
        \o TableOpen \o TrClose \o <<SP, NL, SP, 97>> \o TableClose \o <<NL>>

RowsTable ==                               \* "<table><tr>a</tr>\n<tr>b</tr>\n</table>"
    TableOpen \o TrOpen \o <<97>> \o TrClose \o <<NL>> \o TrOpen \o <<98>> \o TrClose
        \o <<NL>> \o TableClose

TableTexts == {Flatten(ps) : ps \in SeqsUpTo(TablePieces, MaxPieces)} \cup {TwoTables, RowsTable}

\* documents of the batches handed to chunk_all_documents: one chunk, two
\* chunks, none, and one chunk merged from two sections
BatchDocuments ==
    { [page_content |-> <<97>>, metadata |-> [source |-> "a.pdf"]],
      [page_content |-> LongLine \o <<NL, HASH, SP, 97>>, metadata |-> [source |-> "b.pdf"]],
      [page_content |-> <<>>, metadata |-> [source |-> "c.pdf"]],
      [page_content |-> <<97, NL, HASH, SP, 97>>, metadata |-> [source |-> "d.pdf"]] }

Batches == SeqsUpTo(BatchDocuments, MaxDocs)

\* the blobs of the container in the order list_blobs gives them:
\* "B.PDF", "a.pdf", "c.txt", "d.pdf"
BlobNames ==
    << <<66, 46, 80, 68, 70>>, <<97, 46, 112, 100, 102>>, <<99, 46, 116, 120, 116>>,
       <<100, 46, 112, 100, 102>> >>

\* blob metadata: no state, pending, processed
BlobMetadatas ==
    { [origin |-> "upload"],
      [state |-> "pending"],
      [state |-> "processed", origin |-> "upload"] }

Containers == [{BlobNames[k] : k \in 1..MaxBlobs} -> BlobMetadatas]

\* no blob at all
NoContainer == [n \in {} |-> [state |-> "pending"]]

\* the members of a list
Elements(list) == {list[k] : k \in DOMAIN list}

\* chunk lists handed to the embedding service: chunks chunk_document makes
ChunkPool ==
    Elements(chunk_document([page_content |-> <<97>>, metadata |-> [source |-> "a.pdf"]]))
    \cup Elements(chunk_document([page_content |-> LongLine \o <<NL, HASH, SP, 97>>,
                                  metadata |-> [source |-> "b.pdf"]]))

ChunkLists == SeqsUpTo(ChunkPool, MaxChunks)

BatchSizes == 0..MaxBatch \cup {DefaultBatchSize}

\* document lists handed to the indexing service: the chunks of two extracted
\* blobs with their embeddings, and one chunk without an embedding
EmbeddedChunks(blob_name) ==
    Elements(AttachFrom(chunk_document(ExtractedDocument(blob_name)),
                        <<SomeEmbedding(ClientVector(<<97>>))>>, 1))

IndexPool ==
    EmbeddedChunks(BlobNames[1]) \cup EmbeddedChunks(BlobNames[2])
        \cup Elements(chunk_document(ExtractedDocument(BlobNames[2])))

IndexLists == SeqsUpTo(IndexPool, MaxChunks)

\* the metadata of most documents
PlainMetadata == [source |-> "a.pdf"]

\* metadata mappings: the plain one, one with more keys, and one that has a key
\* chunk_document sets itself
Metadatas ==
    { PlainMetadata,
      [source |-> "b.pdf", pages |-> 2],
      [source |-> "c.pdf", chunk_type |-> "table"] }

\* the texts chunked under every metadata mapping
MetaTexts == {JoinLines(ls) : ls \in SeqsUpTo(LinePool, MaxMetaLines) \ {<<>>}}

Documents ==
    {[page_content |-> t, metadata |-> PlainMetadata] : t \in Texts}
        \cup {[page_content |-> t, metadata |-> md] : t \in MetaTexts, md \in Metadatas}

\* sections of trimmed length 0, 1, 1, 2, 3
SectionPool == {<<>>, <<97>>, <<SP, 97, SP>>, <<97, 98>>, <<97, 98, 99>>}

\* three sections of 10, 10 and 200 characters
Sec10a == <<HASH, SP>> \o [k \in 1..8 |-> 97]
Sec10b == [k \in 1..10 |-> 98]
Sec200 == [k \in 1..200 |-> 99]
MergeFixture == <<Sec10a, Sec10b, Sec200>>

\* the sections of EndToEndFixture
EndToEndSections == <<IntroSection, SectionOne, SubSection>>

SectionLists == SeqsUpTo(SectionPool, MaxSections) \cup {MergeFixture, EndToEndSections}

MinSizes == 0..MaxMin \cup {DefaultMinChunkSize, 20}

\* ------------------------------------------------------------------ state
VARIABLES
    pc,               \* where the running call stands
    call,             \* the method called from outside
    document,         \* chunk_document's argument
    text,             \* _split_by_headers_manual's argument
    cleaned_text,
    section_texts,
    sections_arg,     \* _merge_small_chunks' argument sections
    min_chunk_size,
    i,
    merged_sections,
    sections,         \* chunk_document's list of section Documents
    returned,         \* the value the outer call returned
    block,            \* _is_table's argument
    is_table,         \* the value _is_table returned
    error,            \* the stage of chunk_document that raised, "none" if none did
    documents,        \* chunk_all_documents' argument
    doc_index,        \* the number of documents its loop is through with
    all_chunks,
    blobs,            \* the container: blob name -> blob metadata
    blob_docs,        \* the names list_pending_documents returned
    blob_index,       \* the number of blobs extract_all_documents' loop is through with
    outcomes,         \* what happened to each of those blobs
    chunks,           \* add_all_embeddings_to_documents' argument documents
    batch_size,
    embed_i,          \* generate_embeddings_batch's loop variable i
    all_embeddings,
    embed_outcomes,   \* what the embedding client did with each batch
    documents_with_embeddings,
    indexing_batch_size,
    search_documents,
    index_i,          \* the loop variable i of index_all_documents' upload loop
    successful_indexes,
    upload_outcomes,  \* what the search client did with each batch
    search_index,     \* the documents in the search index
    success,          \* the value index_all_documents returned
    pipeline_success, \* the value run_full_pipeline returned
    run_log,          \* what each finished run of the pipeline script left behind
    index_exists,     \* the search service has the index
    index_schema,     \* recreate_azure_index's local: what get_index_schema returned
    client_calls,     \* the calls made on index_client, and whether each raised
    recreate_success  \* the value recreate_azure_index returned

vars == <<pc, call, document, text, cleaned_text, section_texts, sections_arg,
          min_chunk_size, i, merged_sections, sections, returned, block, is_table,
          error, documents, doc_index, all_chunks,
          blobs, blob_docs, blob_index, outcomes,
          chunks, batch_size, embed_i, all_embeddings, embed_outcomes,
          documents_with_embeddings,
          indexing_batch_size, search_documents, index_i, successful_indexes,
          upload_outcomes, search_index, success, pipeline_success, run_log,
          index_exists, index_schema, client_calls, recreate_success>>

\* the state of a call of add_all_embeddings_to_documents
embed_vars ==
    <<chunks, batch_size, embed_i, all_embeddings, embed_outcomes, documents_with_embeddings>>

\* the state of the services behind the chunking
\* the state of a call of index_all_documents, and the search index
index_vars ==
    <<indexing_batch_size, search_documents, index_i, successful_indexes, upload_outcomes,
      search_index, success>>

service_vars == <<embed_vars, index_vars>>

\* the state of a call of chunk_all_documents
batch_vars == <<documents, doc_index, all_chunks>>

\* the state of a call of extract_all_documents, its documents list apart
extract_vars == <<blobs, blob_docs, blob_index, outcomes>>

\* the state of a call of _is_table
table_vars == <<block, is_table>>

NoDocument == [page_content |-> <<>>, metadata |-> <<>>]

recreate_vars == <<index_exists, index_schema, client_calls, recreate_success>>

\* get_index_schema returned None
NoSchema == "None"

\* the SearchIndex object get_index_schema returns
FetchedSchema == "SearchIndex"

Init ==
    /\ pc = "idle"
    /\ call = "none"
    /\ document = NoDocument
    /\ text = <<>>
    /\ cleaned_text = <<>>
    /\ section_texts = <<>>
    /\ sections_arg = <<>>
    /\ min_chunk_size = DefaultMinChunkSize
    /\ i = 0
    /\ merged_sections = <<>>
    /\ sections = <<>>
    /\ returned = <<>>
    /\ block = <<>>
    /\ is_table = FALSE
    /\ error = "none"
    /\ documents = <<>>
    /\ doc_index = 0
    /\ all_chunks = <<>>
    /\ blobs = NoContainer
    /\ blob_docs = <<>>
    /\ blob_index = 0
    /\ outcomes = <<>>
    /\ chunks = <<>>
    /\ batch_size = DefaultBatchSize
    /\ embed_i = 0
    /\ all_embeddings = <<>>
    /\ embed_outcomes = <<>>
    /\ documents_with_embeddings = <<>>
    /\ indexing_batch_size = DefaultBatchSize
    /\ search_documents = <<>>
    /\ index_i = 0
    /\ successful_indexes = 0
    /\ upload_outcomes = <<>>
    /\ search_index = {}
    /\ success = FALSE
    /\ pipeline_success = FALSE
    /\ run_log = <<>>
    /\ index_exists = FALSE
    /\ index_schema = NoSchema
    /\ client_calls = <<>>
    /\ recreate_success = FALSE

\* the calls that run chunk_document
ChunkingCalls == {"chunk_document", "chunk_all_documents", "run_full_pipeline"}

\* a caller invokes chunk_document(document)
CallChunkDocument ==
    /\ pc = "idle"
    /\ \E d \in Documents : document' = d
    /\ call' = "chunk_document"
    /\ pc' = "clean"
    /\ UNCHANGED <<text, cleaned_text, section_texts, sections_arg, min_chunk_size, i,
                   merged_sections, sections, returned>>
    /\ UNCHANGED <<table_vars, error, batch_vars>>
    /\ UNCHANGED extract_vars
    /\ UNCHANGED service_vars
    /\ UNCHANGED run_log
    /\ UNCHANGED pipeline_success
    /\ UNCHANGED recreate_vars

\* cleaned_text = self._clean_text(document.page_content)
Clean ==
    /\ pc = "clean"
    /\ cleaned_text' = _clean_text(document.page_content)
    /\ pc' = "split"
    /\ UNCHANGED <<call, document, text, section_texts, sections_arg, min_chunk_size, i,
                   merged_sections, sections, returned>>
    /\ UNCHANGED <<table_vars, error, batch_vars>>
    /\ UNCHANGED extract_vars
    /\ UNCHANGED service_vars
    /\ UNCHANGED run_log
    /\ UNCHANGED pipeline_success
    /\ UNCHANGED recreate_vars

\* section_texts = self._split_by_headers_manual(cleaned_text)
Split ==
    /\ pc = "split"
    /\ text' = cleaned_text
    /\ section_texts' = _split_by_headers_manual(cleaned_text)
    /\ pc' = "merge_call"
    /\ UNCHANGED <<call, document, cleaned_text, sections_arg, min_chunk_size, i,
                   merged_sections, sections, returned>>
    /\ UNCHANGED <<table_vars, error, batch_vars>>
    /\ UNCHANGED extract_vars
    /\ UNCHANGED service_vars
    /\ UNCHANGED run_log
    /\ UNCHANGED pipeline_success
    /\ UNCHANGED recreate_vars

\* a caller invokes _split_by_headers_manual(text) on any text
CallSplit ==
    /\ pc = "idle"
    /\ \E t \in Texts :
          /\ text' = t
          /\ returned' = _split_by_headers_manual(t)
    /\ call' = "_split_by_headers_manual"
    /\ pc' = "done"
    /\ UNCHANGED <<document, cleaned_text, section_texts, sections_arg, min_chunk_size, i,
                   merged_sections, sections>>
    /\ UNCHANGED <<table_vars, error, batch_vars>>
    /\ UNCHANGED extract_vars
    /\ UNCHANGED service_vars
    /\ UNCHANGED run_log
    /\ UNCHANGED pipeline_success
    /\ UNCHANGED recreate_vars

\* section_texts = self._merge_small_chunks(section_texts): entry, with the default
\* min_chunk_size; "if not sections: return sections"
MergeCall ==
    /\ pc = "merge_call"
    /\ sections_arg' = section_texts
    /\ min_chunk_size' = DefaultMinChunkSize
    /\ i' = 0
    /\ merged_sections' = <<>>
    /\ pc' = IF section_texts = <<>> THEN "sections" ELSE "merge"
    /\ UNCHANGED <<call, document, text, cleaned_text, section_texts, sections, returned>>
    /\ UNCHANGED <<table_vars, error, batch_vars>>
    /\ UNCHANGED extract_vars
    /\ UNCHANGED service_vars
    /\ UNCHANGED run_log
    /\ UNCHANGED pipeline_success
    /\ UNCHANGED recreate_vars

\* a caller invokes _merge_small_chunks(sections, min_chunk_size);
\* "if not sections: return sections"
CallMerge ==
    /\ pc = "idle"
    /\ \E secs \in SectionLists, m \in MinSizes :
          /\ sections_arg' = secs
          /\ min_chunk_size' = m
          /\ pc' = IF secs = <<>> THEN "done" ELSE "merge"
          /\ returned' = IF secs = <<>> THEN secs ELSE returned
    /\ call' = "_merge_small_chunks"
    /\ i' = 0
    /\ merged_sections' = <<>>
    /\ UNCHANGED <<document, text, cleaned_text, section_texts, sections>>
    /\ UNCHANGED <<table_vars, error, batch_vars>>
    /\ UNCHANGED extract_vars
    /\ UNCHANGED service_vars
    /\ UNCHANGED run_log
    /\ UNCHANGED pipeline_success
    /\ UNCHANGED recreate_vars

\* one iteration of "while i < len(sections)"
MergeIter ==
    /\ pc = "merge"
    /\ i < Len(sections_arg)
    /\ LET step == MergeStep(sections_arg, min_chunk_size, i, merged_sections)
       IN /\ merged_sections' = step.merged_sections
          /\ i' = step.i
    /\ UNCHANGED <<pc, call, document, text, cleaned_text, section_texts, sections_arg,
                   min_chunk_size, sections, returned>>
    /\ UNCHANGED <<table_vars, error, batch_vars>>
    /\ UNCHANGED extract_vars
    /\ UNCHANGED service_vars
    /\ UNCHANGED run_log
    /\ UNCHANGED pipeline_success
    /\ UNCHANGED recreate_vars

\* the loop ends: return merged_sections
MergeReturn ==
    /\ pc = "merge"
    /\ ~(i < Len(sections_arg))
    /\ IF call \in ChunkingCalls
       THEN /\ section_texts' = merged_sections
            /\ pc' = "sections"
            /\ UNCHANGED returned
       ELSE /\ returned' = merged_sections
            /\ pc' = "done"
            /\ UNCHANGED section_texts
    /\ UNCHANGED <<call, document, text, cleaned_text, sections_arg, min_chunk_size, i,
                   merged_sections, sections>>
    /\ UNCHANGED <<table_vars, error, batch_vars>>
    /\ UNCHANGED extract_vars
    /\ UNCHANGED service_vars
    /\ UNCHANGED run_log
    /\ UNCHANGED pipeline_success
    /\ UNCHANGED recreate_vars

\* the loop that strips each section, cleans its tables and numbers it
Sections ==
    /\ pc = "sections"
    /\ sections' = BuildSections(section_texts, 0)
    /\ pc' = "assemble"
    /\ UNCHANGED <<call, document, text, cleaned_text, section_texts, sections_arg,
                   min_chunk_size, i, merged_sections, returned>>
    /\ UNCHANGED <<table_vars, error, batch_vars>>
    /\ UNCHANGED extract_vars
    /\ UNCHANGED service_vars
    /\ UNCHANGED run_log
    /\ UNCHANGED pipeline_success
    /\ UNCHANGED recreate_vars

\* the loop that builds chunk_documents; return chunk_documents
AssembleChunks ==
    /\ pc = "assemble"
    /\ IF call = "chunk_document"
       THEN /\ returned' = Assemble(document, sections)
            /\ pc' = "done"
            /\ UNCHANGED batch_vars
       ELSE \* chunks = self.chunk_document(document); all_chunks.extend(chunks)
            /\ all_chunks' = Extend(all_chunks, Assemble(document, sections))
            /\ doc_index' = doc_index + 1
            /\ pc' = "next_document"
            /\ UNCHANGED <<returned, documents>>
    /\ UNCHANGED <<call, document, text, cleaned_text, section_texts, sections_arg,
                   min_chunk_size, i, merged_sections, sections>>
    /\ UNCHANGED <<table_vars, error>>
    /\ UNCHANGED extract_vars
    /\ UNCHANGED service_vars
    /\ UNCHANGED run_log
    /\ UNCHANGED pipeline_success
    /\ UNCHANGED recreate_vars

\* a caller invokes chunk_all_documents(documents): all_chunks = []
CallChunkAllDocuments ==
    /\ pc = "idle"
    /\ \E docs \in Batches : documents' = docs
    /\ call' = "chunk_all_documents"
    /\ doc_index' = 0
    /\ all_chunks' = <<>>
    /\ pc' = "next_document"
    /\ UNCHANGED <<document, text, cleaned_text, section_texts, sections_arg, min_chunk_size,
                   i, merged_sections, sections, returned>>
    /\ UNCHANGED <<table_vars, error>>
    /\ UNCHANGED extract_vars
    /\ UNCHANGED service_vars
    /\ UNCHANGED run_log
    /\ UNCHANGED pipeline_success
    /\ UNCHANGED recreate_vars

\* "for i, document in enumerate(documents)": the next document is handed to
\* chunk_document, or the loop is over and all_chunks is returned
NextDocument ==
    /\ pc = "next_document"
    /\ IF doc_index < Len(documents)
       THEN /\ document' = documents[doc_index + 1]
            /\ pc' = "clean"
            /\ UNCHANGED returned
       ELSE /\ IF call = "run_full_pipeline"
               THEN UNCHANGED returned /\ pc' = "embed_call"
               ELSE returned' = all_chunks /\ pc' = "done"
            /\ UNCHANGED document
    /\ UNCHANGED <<call, text, cleaned_text, section_texts, sections_arg, min_chunk_size, i,
                   merged_sections, sections>>
    /\ UNCHANGED <<table_vars, error, batch_vars>>
    /\ UNCHANGED extract_vars
    /\ UNCHANGED service_vars
    /\ UNCHANGED run_log
    /\ UNCHANGED pipeline_success
    /\ UNCHANGED recreate_vars

\* a caller invokes _is_table(block)
CallIsTable ==
    /\ pc = "idle"
    /\ \E b \in Blocks :
          /\ block' = b
          /\ is_table' = _is_table(b)
    /\ call' = "_is_table"
    /\ pc' = "done"
    /\ UNCHANGED <<document, text, cleaned_text, section_texts, sections_arg, min_chunk_size,
                   i, merged_sections, sections, returned>>
    /\ UNCHANGED <<error, batch_vars>>
    /\ UNCHANGED extract_vars
    /\ UNCHANGED service_vars
    /\ UNCHANGED run_log
    /\ UNCHANGED pipeline_success
    /\ UNCHANGED recreate_vars

\* a caller invokes _clean_table_formatting(text)
CallCleanTable ==
    /\ pc = "idle"
    /\ \E t \in TableTexts :
          /\ text' = t
          /\ returned' = _clean_table_formatting(t)
    /\ call' = "_clean_table_formatting"
    /\ pc' = "done"
    /\ UNCHANGED <<document, cleaned_text, section_texts, sections_arg, min_chunk_size, i,
                   merged_sections, sections>>
    /\ UNCHANGED <<table_vars, error, batch_vars>>
    /\ UNCHANGED extract_vars
    /\ UNCHANGED service_vars
    /\ UNCHANGED run_log
    /\ UNCHANGED pipeline_success
    /\ UNCHANGED recreate_vars

\* the statements of chunk_document's try block, by the stage they belong to
ChunkStages == {"clean", "split", "merge_call", "merge", "sections", "assemble"}

\* an exception handler that runs the failed stage again
ExceptRetries(stage) == stage

\* "except Exception as e: logger.error(...); raise": where the call stands
\* after the handler
ExceptReraise(stage) == "raised"

\* a statement of the try block raises: the handler logs and raises again, the
\* frame of chunk_document is left and nothing is returned; inside
\* chunk_all_documents the exception reaches its handler, which logs and raises
\* again too, so all_chunks is lost with its frame
Raise ==
    /\ call \in ChunkingCalls
    /\ pc \in ChunkStages
    /\ error' = pc
    /\ pc' = ExceptReraise(pc)
    /\ text' = <<>>
    /\ cleaned_text' = <<>>
    /\ section_texts' = <<>>
    /\ sections_arg' = <<>>
    /\ min_chunk_size' = DefaultMinChunkSize
    /\ i' = 0
    /\ merged_sections' = <<>>
    /\ sections' = <<>>
    /\ all_chunks' = <<>>
    /\ UNCHANGED <<call, document, returned, table_vars, documents, doc_index>>
    /\ UNCHANGED extract_vars
    /\ UNCHANGED service_vars
    /\ UNCHANGED run_log
    /\ UNCHANGED pipeline_success
    /\ UNCHANGED recreate_vars

\* the variables of the chunking methods
chunking_vars ==
    <<document, text, cleaned_text, section_texts, sections_arg, min_chunk_size, i,
      merged_sections, sections>>

\* a caller invokes extract_all_documents() on some container: documents = []
CallExtractAllDocuments ==
    /\ pc = "idle"
    /\ \E container \in Containers : blobs' = container
    /\ call' = "extract_all_documents"
    /\ documents' = <<>>
    /\ pc' = "list"
    /\ UNCHANGED <<blob_docs, blob_index, outcomes, doc_index, all_chunks, returned>>
    /\ UNCHANGED <<chunking_vars, table_vars, error>>
    /\ UNCHANGED service_vars
    /\ UNCHANGED run_log
    /\ UNCHANGED pipeline_success
    /\ UNCHANGED recreate_vars

\* blob_docs = self.list_pending_documents(); "if not blob_docs: return documents"
ListPending ==
    /\ pc = "list"
    /\ blob_docs' = ListPendingFrom(blobs, BlobNames, 1)
    /\ blob_index' = 0
    /\ IF blob_docs' = <<>>
       THEN (IF call = "run_full_pipeline"
             THEN UNCHANGED returned /\ pc' = "chunk_call"
             ELSE returned' = documents /\ pc' = "done")
       ELSE UNCHANGED returned /\ pc' = "extract"
    /\ UNCHANGED <<blobs, outcomes, batch_vars>>
    /\ UNCHANGED <<call, chunking_vars, table_vars, error>>
    /\ UNCHANGED service_vars
    /\ UNCHANGED run_log
    /\ UNCHANGED pipeline_success
    /\ UNCHANGED recreate_vars

\* list_pending_documents raises: it logs and raises again, and so does the
\* outer handler of extract_all_documents
ListPendingRaises ==
    /\ pc = "list"
    /\ error' = "list"
    /\ pc' = "raised"
    /\ UNCHANGED <<extract_vars, batch_vars, returned>>
    /\ UNCHANGED <<call, chunking_vars, table_vars>>
    /\ UNCHANGED service_vars
    /\ UNCHANGED run_log
    /\ UNCHANGED pipeline_success
    /\ UNCHANGED recreate_vars

\* one blob of the loop: document = self.extract_document(blob_doc['name']) and
\* documents.append(document); when the download or the extraction raises, the
\* handler of the loop body logs and goes on with the next blob
ExtractDocument ==
    /\ pc = "extract"
    /\ blob_index < Len(blob_docs)
    /\ \E extracted \in BOOLEAN :
          IF extracted
          THEN /\ documents' = Append(documents, ExtractedDocument(blob_docs[blob_index + 1]))
               /\ pc' = "update"
               /\ UNCHANGED <<blob_index, outcomes>>
          ELSE /\ outcomes' = Append(outcomes, "extraction failed")
               /\ blob_index' = blob_index + 1
               /\ UNCHANGED <<documents, pc>>
    /\ UNCHANGED <<blobs, blob_docs, doc_index, all_chunks, returned>>
    /\ UNCHANGED <<call, chunking_vars, table_vars, error>>
    /\ UNCHANGED service_vars
    /\ UNCHANGED run_log
    /\ UNCHANGED pipeline_success
    /\ UNCHANGED recreate_vars

\* "if self.update_blob_state_to_processed(blob_doc['name'])": the metadata is
\* written, or a call inside fails, which update_blob_state_to_processed logs
\* and answers with False
UpdateBlobState ==
    /\ pc = "update"
    /\ \E updated \in BOOLEAN :
          IF updated
          THEN /\ blobs' = update_blob_state_to_processed(blobs, blob_docs[blob_index + 1])
               /\ outcomes' = Append(outcomes, "processed")
          ELSE /\ outcomes' = Append(outcomes, "update failed")
               /\ UNCHANGED blobs
    /\ blob_index' = blob_index + 1
    /\ pc' = "extract"
    /\ UNCHANGED <<blob_docs, batch_vars, returned>>
    /\ UNCHANGED <<call, chunking_vars, table_vars, error>>
    /\ UNCHANGED service_vars
    /\ UNCHANGED run_log
    /\ UNCHANGED pipeline_success
    /\ UNCHANGED recreate_vars

\* the loop is over: return documents
ExtractReturn ==
    /\ pc = "extract"
    /\ ~(blob_index < Len(blob_docs))
    /\ IF call = "run_full_pipeline"
       THEN UNCHANGED returned /\ pc' = "chunk_call"
       ELSE returned' = documents /\ pc' = "done"
    /\ UNCHANGED <<extract_vars, batch_vars>>
    /\ UNCHANGED <<call, chunking_vars, table_vars, error>>
    /\ UNCHANGED service_vars
    /\ UNCHANGED run_log
    /\ UNCHANGED pipeline_success
    /\ UNCHANGED recreate_vars

\* the variables of the chunking and extraction services
upstream_vars == <<chunking_vars, table_vars, batch_vars, extract_vars>>

\* a caller invokes add_all_embeddings_to_documents(documents, batch_size):
\* texts = [doc.page_content for doc in documents], and
\* generate_embeddings_batch starts with all_embeddings = []
CallAddEmbeddings ==
    /\ pc = "idle"
    /\ \E docs \in ChunkLists, size \in BatchSizes :
          /\ chunks' = docs
          /\ batch_size' = size
    /\ call' = "add_all_embeddings_to_documents"
    /\ embed_i' = 0
    /\ all_embeddings' = <<>>
    /\ embed_outcomes' = <<>>
    /\ pc' = "embed"
    /\ UNCHANGED <<documents_with_embeddings, returned, error, upstream_vars>>
    /\ UNCHANGED index_vars
    /\ UNCHANGED run_log
    /\ UNCHANGED pipeline_success
    /\ UNCHANGED recreate_vars

\* range(0, total_texts, batch_size) with batch_size 0 raises ValueError: both
\* handlers log and raise again
EmbedRangeRaises ==
    /\ pc = "embed"
    /\ batch_size = 0
    /\ error' = "embed"
    /\ pc' = "raised"
    /\ UNCHANGED <<call, returned, embed_vars, upstream_vars>>
    /\ UNCHANGED index_vars
    /\ UNCHANGED run_log
    /\ UNCHANGED pipeline_success
    /\ UNCHANGED recreate_vars

\* one batch of generate_embeddings_batch's loop
EmbedBatch ==
    /\ pc = "embed"
    /\ batch_size > 0
    /\ embed_i < Len(chunks)
    /\ \E outcome \in {"ok", "short", "raises"} :
          /\ all_embeddings' =
                Extend(all_embeddings,
                       BatchEntries(Slice(Contents(chunks), embed_i, batch_size), outcome))
          /\ embed_outcomes' = Append(embed_outcomes, outcome)
    /\ embed_i' = embed_i + batch_size
    /\ UNCHANGED <<pc, call, chunks, batch_size, documents_with_embeddings, returned, error,
                   upstream_vars>>
    /\ UNCHANGED index_vars
    /\ UNCHANGED run_log
    /\ UNCHANGED pipeline_success
    /\ UNCHANGED recreate_vars

\* the loop is over: generate_embeddings_batch returns all_embeddings
EmbedLoopEnd ==
    /\ pc = "embed"
    /\ batch_size > 0
    /\ ~(embed_i < Len(chunks))
    /\ pc' = "attach"
    /\ UNCHANGED <<call, returned, error, embed_vars, upstream_vars>>
    /\ UNCHANGED index_vars
    /\ UNCHANGED run_log
    /\ UNCHANGED pipeline_success
    /\ UNCHANGED recreate_vars

\* the loop over zip(documents, embeddings); return documents_with_embeddings
AttachEmbeddings ==
    /\ pc = "attach"
    /\ documents_with_embeddings' = AttachFrom(chunks, all_embeddings, 1)
    /\ IF call = "run_full_pipeline"
       THEN UNCHANGED returned /\ pc' = "index_call"
       ELSE returned' = documents_with_embeddings' /\ pc' = "done"
    /\ UNCHANGED <<call, chunks, batch_size, embed_i, all_embeddings, embed_outcomes, error,
                   upstream_vars>>
    /\ UNCHANGED index_vars
    /\ UNCHANGED run_log
    /\ UNCHANGED pipeline_success
    /\ UNCHANGED recreate_vars

\* where index_all_documents returns to: run_full_pipeline goes on with its
\* result, a direct call is over
IndexingReturnsTo(caller) == IF caller = "run_full_pipeline" THEN "report" ELSE "done"

\* a caller invokes index_all_documents(documents, batch_size)
CallIndexAllDocuments ==
    /\ pc = "idle"
    /\ \E docs \in IndexLists, size \in BatchSizes :
          /\ documents_with_embeddings' = docs
          /\ indexing_batch_size' = size
    /\ call' = "index_all_documents"
    /\ pc' = "prepare"
    /\ UNCHANGED <<search_documents, index_i, successful_indexes, upload_outcomes,
                   search_index, success>>
    /\ UNCHANGED <<chunks, batch_size, embed_i, all_embeddings, embed_outcomes>>
    /\ UNCHANGED <<returned, error, upstream_vars>>
    /\ UNCHANGED run_log
    /\ UNCHANGED pipeline_success
    /\ UNCHANGED recreate_vars

\* the preparation loop; "if not search_documents: return False";
\* successful_indexes = 0
PrepareSearchDocuments ==
    /\ pc = "prepare"
    /\ search_documents' = PrepareFrom(documents_with_embeddings, 1)
    /\ index_i' = 0
    /\ successful_indexes' = 0
    /\ upload_outcomes' = <<>>
    /\ IF search_documents' = <<>>
       THEN success' = FALSE /\ pc' = IndexingReturnsTo(call)
       ELSE UNCHANGED success /\ pc' = "upload"
    /\ UNCHANGED <<indexing_batch_size, search_index>>
    /\ UNCHANGED <<call, returned, error, embed_vars, upstream_vars>>
    /\ UNCHANGED run_log
    /\ UNCHANGED pipeline_success
    /\ UNCHANGED recreate_vars

\* range(0, len(search_documents), batch_size) with batch_size 0 raises
\* ValueError: the outer handler logs and raises again
UploadRangeRaises ==
    /\ pc = "upload"
    /\ indexing_batch_size = 0
    /\ error' = "index"
    /\ pc' = "raised"
    /\ UNCHANGED <<call, returned, index_vars, embed_vars, upstream_vars>>
    /\ UNCHANGED run_log
    /\ UNCHANGED pipeline_success
    /\ UNCHANGED recreate_vars

\* one batch of the upload loop: merge_or_upload_documents raises and the
\* batch is skipped, or it reports which documents of the batch succeeded
UploadBatch ==
    /\ pc = "upload"
    /\ indexing_batch_size > 0
    /\ index_i < Len(search_documents)
    /\ LET batch_docs == Slice(search_documents, index_i, indexing_batch_size)
       IN \E raised \in BOOLEAN, succeeded \in SUBSET (1..Len(batch_docs)) :
             /\ raised => succeeded = {}
             /\ upload_outcomes' =
                   Append(upload_outcomes, [raised |-> raised, succeeded |-> succeeded])
             /\ successful_indexes' = successful_indexes + Cardinality(succeeded)
             /\ search_index' = MergeOrUpload(search_index, batch_docs, succeeded)
    /\ index_i' = index_i + indexing_batch_size
    /\ UNCHANGED <<pc, indexing_batch_size, search_documents, success>>
    /\ UNCHANGED <<call, returned, error, embed_vars, upstream_vars>>
    /\ UNCHANGED run_log
    /\ UNCHANGED pipeline_success
    /\ UNCHANGED recreate_vars

\* the loop is over: return successful_indexes > 0
IndexReturn ==
    /\ pc = "upload"
    /\ indexing_batch_size > 0
    /\ ~(index_i < Len(search_documents))
    /\ success' = IndexingSucceeded(successful_indexes)
    /\ pc' = IndexingReturnsTo(call)
    /\ UNCHANGED <<indexing_batch_size, search_documents, index_i, successful_indexes,
                   upload_outcomes, search_index>>
    /\ UNCHANGED <<call, returned, error, embed_vars, upstream_vars>>
    /\ UNCHANGED run_log
    /\ UNCHANGED pipeline_success
    /\ UNCHANGED recreate_vars

\* ---- run_full_pipeline (document_pipeline_service.py) ----

\* the containers the pipeline is run on
PipelineContainers == [{BlobNames[k] : k \in 1..MaxPipelineBlobs} -> BlobMetadatas]

\* the blobs a run marked as processed, from what happened to each listed blob
MarkedBlobs(listed, blob_outcomes) ==
    {listed[k] : k \in {j \in 1..Len(blob_outcomes) : blob_outcomes[j] = "processed"}}

\* the batch sizes the pipeline service is built with
PipelineBatchSizes == {1, DefaultBatchSize}

\* the locals of all four stages, the two batch sizes apart
stage_vars ==
    <<chunking_vars, table_vars, doc_index, all_chunks, blob_docs, blob_index, outcomes,
      chunks, embed_i, all_embeddings, embed_outcomes, documents_with_embeddings,
      search_documents, index_i, successful_indexes, upload_outcomes>>

\* a caller builds DocumentPipelineService(embedding_batch_size,
\* indexing_batch_size) and calls run_full_pipeline, which starts stage 1,
\* extract_all_documents()
CallRunFullPipeline ==
    /\ pc = "idle"
    /\ \E container \in PipelineContainers : blobs' = container
    /\ \E embedding_batch_size \in PipelineBatchSizes : batch_size' = embedding_batch_size
    /\ \E size \in PipelineBatchSizes : indexing_batch_size' = size
    /\ call' = "run_full_pipeline"
    /\ documents' = <<>>
    /\ pc' = "list"
    /\ UNCHANGED <<stage_vars, returned, error, search_index, success, pipeline_success,
                   run_log>>
    /\ UNCHANGED recreate_vars

\* stage 2: chunks = chunk_all_documents(documents)
StageChunking ==
    /\ pc = "chunk_call"
    /\ doc_index' = 0
    /\ all_chunks' = <<>>
    /\ pc' = "next_document"
    /\ UNCHANGED <<call, chunking_vars, table_vars, documents, returned, error>>
    /\ UNCHANGED <<extract_vars, service_vars, run_log>>
    /\ UNCHANGED pipeline_success
    /\ UNCHANGED recreate_vars

\* stage 3: add_all_embeddings_to_documents(chunks, self.embedding_batch_size)
StageEmbeddings ==
    /\ pc = "embed_call"
    /\ chunks' = all_chunks
    /\ embed_i' = 0
    /\ all_embeddings' = <<>>
    /\ embed_outcomes' = <<>>
    /\ pc' = "embed"
    /\ UNCHANGED <<call, batch_size, documents_with_embeddings, returned, error,
                   upstream_vars>>
    /\ UNCHANGED <<index_vars, pipeline_success, run_log>>
    /\ UNCHANGED recreate_vars

\* stage 4: success = index_all_documents(documents_with_embeddings,
\* self.indexing_batch_size)
StageIndexing ==
    /\ pc = "index_call"
    /\ pc' = "prepare"
    /\ UNCHANGED <<call, returned, error, embed_vars, index_vars, upstream_vars,
                   pipeline_success, run_log>>
    /\ UNCHANGED recreate_vars

\* "if success: ... else: ..." logs the result and "return success" ends the run
PipelineReturn ==
    /\ pc = "report"
    /\ pipeline_success' = success
    /\ pc' = "done"
    /\ UNCHANGED <<call, returned, error, upstream_vars, service_vars, run_log>>
    /\ UNCHANGED recreate_vars

\* the script is run after a run that returned or raised: it builds the
\* service with the default batch sizes, and the container and the search
\* index are what the earlier run left
RunAgain ==
    /\ call = "run_full_pipeline"
    /\ pc \in {"done", "raised"}
    /\ run_log = <<>>
    /\ run_log' = <<[marked |-> MarkedBlobs(blob_docs, outcomes),
                     error |-> error,
                     success |-> pipeline_success]>>
    /\ pc' = "list"
    /\ error' = "none"
    /\ documents' = <<>>
    /\ doc_index' = 0
    /\ all_chunks' = <<>>
    /\ blob_docs' = <<>>
    /\ blob_index' = 0
    /\ outcomes' = <<>>
    /\ chunks' = <<>>
    /\ batch_size' = DefaultBatchSize
    /\ embed_i' = 0
    /\ all_embeddings' = <<>>
    /\ embed_outcomes' = <<>>
    /\ documents_with_embeddings' = <<>>
    /\ indexing_batch_size' = DefaultBatchSize
    /\ search_documents' = <<>>
    /\ index_i' = 0
    /\ successful_indexes' = 0
    /\ upload_outcomes' = <<>>
    /\ success' = FALSE
    /\ pipeline_success' = FALSE
    /\ document' = NoDocument
    /\ UNCHANGED <<text, cleaned_text, section_texts, sections_arg, min_chunk_size, i,
                   merged_sections, sections>>
    /\ UNCHANGED <<call, returned, table_vars, blobs, search_index>>
    /\ UNCHANGED recreate_vars

\* ---- recreate_azure_index (clear_index.py) ----

\* everything but the state of recreate_azure_index
other_vars ==
    <<returned, error, upstream_vars, service_vars, pipeline_success, run_log>>

\* one call on index_client, and whether it raised
ClientCall(op, raised) == [op |-> op, raised |-> raised]

\* create is attempted whatever delete_index returned
CreateAnyway(deleted) == "create"

\* "if not delete_index(index_name): ... return False"
AfterDelete(deleted) == IF deleted THEN "create" ELSE "done"

\* the script is run: with an environment variable missing, or when
\* setup_index_client raises, False is returned before any step
CallRecreateAzureIndex ==
    /\ pc = "idle"
    /\ call' = "recreate_azure_index"
    /\ \E exists \in BOOLEAN : index_exists' = exists
    /\ \E configured \in BOOLEAN :
          IF configured
          THEN pc' = "fetch" /\ UNCHANGED recreate_success
          ELSE pc' = "done" /\ recreate_success' = FALSE
    /\ UNCHANGED <<index_schema, client_calls, other_vars>>

\* step 1, get_index_schema: get_index raises when there is no such index,
\* and may raise when there is one; None makes recreate_azure_index return False
FetchSchema ==
    /\ pc = "fetch"
    /\ \E raised \in BOOLEAN :
          /\ ~index_exists => raised
          /\ client_calls' = Append(client_calls, ClientCall("get_index", raised))
          /\ index_schema' = IF raised THEN NoSchema ELSE FetchedSchema
          /\ IF index_schema' = NoSchema
             THEN pc' = "done" /\ recreate_success' = FALSE
             ELSE pc' = "delete_check" /\ UNCHANGED recreate_success
    /\ UNCHANGED <<call, index_exists, other_vars>>

\* step 2, delete_index: when the get_index before the deletion raises,
\* delete_index returns True without deleting
DeleteCheck ==
    /\ pc = "delete_check"
    /\ \E raised \in BOOLEAN :
          /\ ~index_exists => raised
          /\ client_calls' = Append(client_calls, ClientCall("get_index", raised))
          /\ pc' = IF raised THEN AfterDelete(TRUE) ELSE "delete"
    /\ UNCHANGED <<call, index_exists, index_schema, recreate_success, other_vars>>

\* index_client.delete_index(index_name): True when it returned, False when
\* it raised, which makes recreate_azure_index return False
DeleteIndex ==
    /\ pc = "delete"
    /\ \E raised \in BOOLEAN :
          /\ client_calls' = Append(client_calls, ClientCall("delete_index", raised))
          /\ index_exists' = (raised /\ index_exists)
          /\ pc' = AfterDelete(~raised)
          /\ IF pc' = "done" THEN recreate_success' = FALSE ELSE UNCHANGED recreate_success
    /\ UNCHANGED <<call, index_schema, other_vars>>

\* step 3, create_index: index_client.create_index(index_schema) raises when
\* the index is there, and may raise when it is not; a raise makes create_index
\* and recreate_azure_index return False
CreateIndex ==
    /\ pc = "create"
    /\ \E raised \in BOOLEAN :
          /\ index_exists => raised
          /\ client_calls' = Append(client_calls, ClientCall("create_index", raised))
          /\ index_exists' = (index_exists \/ ~raised)
          /\ IF raised
             THEN pc' = "done" /\ recreate_success' = FALSE
             ELSE pc' = "verify" /\ UNCHANGED recreate_success
    /\ UNCHANGED <<call, index_schema, other_vars>>

\* the get_index after the creation: create_index returns False when it
\* raises and True otherwise, and recreate_azure_index returns the same
VerifyCreated ==
    /\ pc = "verify"
    /\ \E raised \in BOOLEAN :
          /\ ~index_exists => raised
          /\ client_calls' = Append(client_calls, ClientCall("get_index", raised))
          /\ recreate_success' = ~raised
    /\ pc' = "done"
    /\ UNCHANGED <<call, index_exists, index_schema, other_vars>>

Next ==
    \/ CallChunkDocument
    \/ Clean
    \/ Split
    \/ CallSplit
    \/ MergeCall
    \/ CallMerge
    \/ MergeIter
    \/ MergeReturn
    \/ Sections
    \/ AssembleChunks
    \/ CallIsTable
    \/ CallCleanTable
    \/ Raise
    \/ CallChunkAllDocuments
    \/ NextDocument
    \/ CallExtractAllDocuments
    \/ ListPending
    \/ ListPendingRaises
    \/ ExtractDocument
    \/ UpdateBlobState
    \/ ExtractReturn
    \/ CallAddEmbeddings
    \/ EmbedRangeRaises
    \/ EmbedBatch
    \/ EmbedLoopEnd
    \/ AttachEmbeddings
    \/ CallIndexAllDocuments
    \/ PrepareSearchDocuments
    \/ UploadRangeRaises
    \/ UploadBatch
    \/ IndexReturn
    \/ CallRunFullPipeline
    \/ StageChunking
    \/ StageEmbeddings
    \/ StageIndexing
    \/ PipelineReturn
    \/ RunAgain
    \/ CallRecreateAzureIndex
    \/ FetchSchema
    \/ DeleteCheck
    \/ DeleteIndex
    \/ CreateIndex
    \/ VerifyCreated

Spec == Init /\ [][Next]_vars

\* ------------------------------------------------------------------ claims
\* chunk_document has returned
ChunkingDone == pc = "done" /\ call = "chunk_document"

\* all whitespace deleted
NoSpace(s) == SelectSeq(s, LAMBDA c : ~IsSpace(c))

RECURSIVE Concat(_)
Concat(strs) == IF strs = <<>> THEN <<>> ELSE strs[1] \o Concat(Tail(strs))

\* C1: the chunks chunk_document returns carry chunk_index 0, 1, ..., n-1 in
\* list order, whatever was dropped as empty or merged away.
C1_ChunkIndexDense ==
    ChunkingDone =>
        \A k \in 1..Len(returned) : returned[k].metadata.chunk_index = k - 1

\* a document some of whose sections were merged away and that still gives two
\* chunks or more
C1_Witness ==
    /\ ChunkingDone
    /\ Len(returned) >= 2
    /\ Len(sections_arg) > Len(returned)

\* C2: the chunk contents, concatenated in chunk_index order, hold exactly the
\* non-whitespace characters of the normalized text, in their order.
C2_ChunksCoverText ==
    ChunkingDone => NoSpace(Concat(Contents(returned))) = NoSpace(cleaned_text)

\* two chunks, one of them a section whose table was compacted
C2_Witness ==
    /\ ChunkingDone
    /\ Len(returned) >= 2
    /\ \E k \in 1..Len(returned) : returned[k].page_content # Strip(section_texts[k])

\* C8: _clean_text applied to its own result changes nothing.
C8_CleanIdempotent ==
    (call = "chunk_document" /\ pc \notin {"idle", "clean"}) =>
        _clean_text(cleaned_text) = cleaned_text

\* normalization changed the raw text and left something
C8_Witness ==
    /\ call = "chunk_document"
    /\ pc = "split"
    /\ cleaned_text # <<>>
    /\ cleaned_text # document.page_content
    /\ \E k \in 1..Len(cleaned_text) : IsSpace(cleaned_text[k])

\* C9: the result of _clean_text holds no control character, no run of three
\* newlines, no run of two spaces or tabs, no leading or trailing whitespace,
\* and is empty for the empty string.
C9_NormalizedText ==
    (call = "chunk_document" /\ pc \notin {"idle", "clean"}) =>
        /\ \A k \in 1..Len(cleaned_text) : ~IsControl(cleaned_text[k])
        /\ \A k \in 1..(Len(cleaned_text) - 2) :
              ~(cleaned_text[k] = NL /\ cleaned_text[k + 1] = NL /\ cleaned_text[k + 2] = NL)
        /\ \A k \in 1..(Len(cleaned_text) - 1) :
              ~(IsSpTab(cleaned_text[k]) /\ IsSpTab(cleaned_text[k + 1]))
        /\ cleaned_text # <<>> =>
              ~IsSpace(cleaned_text[1]) /\ ~IsSpace(cleaned_text[Len(cleaned_text)])
        /\ document.page_content = <<>> => cleaned_text = <<>>

\* a raw text with three newlines in a row between two letters
C9_Witness ==
    /\ call = "chunk_document"
    /\ pc = "split"
    /\ \E k \in 1..(Len(document.page_content) - 4) :
          /\ ~IsSpace(document.page_content[k])
          /\ ~IsControl(document.page_content[k])
          /\ \A j \in 1..3 : document.page_content[k + j] = NL
          /\ ~IsSpace(document.page_content[k + 4])
          /\ ~IsControl(document.page_content[k + 4])

\* _merge_small_chunks has returned, to chunk_document or to an outside caller
MergeReturned ==
    \/ call = "_merge_small_chunks" /\ pc = "done"
    \/ call = "chunk_document" /\ pc \in {"sections", "assemble", "done"}

\* the list it returned
MergeOutput == IF call = "chunk_document" THEN section_texts ELSE returned

\* C3: the merge is one left-to-right pass: at index i a section whose trimmed
\* length is below min_chunk_size and that has a successor is emitted joined to
\* it by a blank line and the index advances by 2; any other section, a small
\* last one included, is emitted unchanged and the index advances by 1; when the
\* index reaches the end, the list built is what is returned (all of it for a
\* pass that no exception interrupts).
C3_MergeSinglePass ==
    [][ /\ (pc = "merge" /\ i < Len(sections_arg) /\ error' = "none") =>
              /\ pc' = "merge"
              /\ sections_arg' = sections_arg
              /\ IF Len(Strip(sections_arg[i + 1])) < min_chunk_size
                    /\ i + 2 <= Len(sections_arg)
                 THEN /\ merged_sections' =
                            Append(merged_sections,
                                   sections_arg[i + 1] \o <<NL, NL>> \o sections_arg[i + 2])
                      /\ i' = i + 2
                 ELSE /\ merged_sections' = Append(merged_sections, sections_arg[i + 1])
                      /\ i' = i + 1
        /\ (pc = "merge" /\ i >= Len(sections_arg) /\ error' = "none") =>
              /\ pc' # "merge"
              /\ IF call \in ChunkingCalls
                 THEN section_texts' = merged_sections
                 ELSE returned' = merged_sections
      ]_vars

\* a pass that merged a pair, whitespace padding trimmed for the size, and
\* emitted a small last section as it was
C3_Witness ==
    /\ call = "_merge_small_chunks"
    /\ pc = "done"
    /\ Len(returned) >= 2
    /\ Len(returned) < Len(sections_arg)
    /\ returned[Len(returned)] = sections_arg[Len(sections_arg)]
    /\ Len(Strip(sections_arg[Len(sections_arg)])) < min_chunk_size
    /\ \E k \in 1..Len(sections_arg) :
          /\ Len(Strip(sections_arg[k])) < min_chunk_size
          /\ Len(sections_arg[k]) >= min_chunk_size

RECURSIVE SumTo(_, _)
SumTo(w, k) == IF k = 0 THEN 0 ELSE w[k] + SumTo(w, k - 1)

\* out is made of the sections of in, in order, each alone or joined to the next
\* by a blank line
PairsOrSingles(in, out) ==
    \E w \in [1..Len(out) -> {1, 2}] :
        /\ SumTo(w, Len(out)) = Len(in)
        /\ \A k \in 1..Len(out) :
              LET first == SumTo(w, k - 1) + 1
              IN out[k] = IF w[k] = 1 THEN in[first]
                          ELSE in[first] \o <<NL, NL>> \o in[first + 1]

\* C4: every section the merge returns is one input section or two consecutive
\* ones, never three; sections of 10, 10 and 200 characters with
\* min_chunk_size 100 give the merged pair and the third section.
C4_MergeGreedy ==
    MergeReturned =>
        /\ PairsOrSingles(sections_arg, MergeOutput)
        /\ (sections_arg = MergeFixture /\ min_chunk_size = DefaultMinChunkSize) =>
              MergeOutput = <<Sec10a \o <<NL, NL>> \o Sec10b, Sec200>>

\* the sections of 10, 10 and 200 characters, merged with min_chunk_size 100
C4_Witness ==
    /\ call = "_merge_small_chunks"
    /\ pc = "done"
    /\ sections_arg = MergeFixture
    /\ min_chunk_size = DefaultMinChunkSize
    /\ Len(returned) = 2

\* "\n\n".join(strs)
RECURSIVE JoinBlank(_)
JoinBlank(strs) ==
    IF strs = <<>> THEN <<>>
    ELSE IF Len(strs) = 1 THEN strs[1]
    ELSE strs[1] \o <<NL, NL>> \o JoinBlank(Tail(strs))

\* C5: the merge returns no more sections than it was given, and joining its
\* output by blank lines gives the same string as joining its input so.
C5_MergeMonotone ==
    MergeReturned =>
        /\ Len(MergeOutput) <= Len(sections_arg)
        /\ JoinBlank(MergeOutput) = JoinBlank(sections_arg)

\* a list that came back shorter, with more than one section left
C5_Witness ==
    /\ call = "_merge_small_chunks"
    /\ pc = "done"
    /\ Len(returned) < Len(sections_arg)
    /\ Len(returned) > 1
    /\ min_chunk_size < DefaultMinChunkSize

\* _split_by_headers_manual has returned, to chunk_document or to an outside caller
SplitReturned ==
    \/ call = "_split_by_headers_manual" /\ pc = "done"
    \/ call = "chunk_document" /\ pc = "merge_call"

\* the list it returned
SplitOutput == IF call = "chunk_document" THEN section_texts ELSE returned

\* the lines that match the heading pattern as they stand, and once trimmed
RawHeadings(lines) == {k \in 1..Len(lines) : MatchesHeaderPattern(lines[k])}

TrimmedHeadings(lines) == {k \in 1..Len(lines) : MatchesHeaderPattern(Strip(lines[k]))}

\* non-whitespace text precedes the first heading
HasPreamble(lines, headings) ==
    \E k \in 1..Len(lines) : Strip(lines[k]) # <<>> /\ \A h \in headings : k < h

\* the n-th smallest element of S
Nth(S, n) == CHOOSE x \in S : Cardinality({y \in S : y < x}) = n - 1

\* the sections when a section starts at each heading line and nowhere else,
\* after a preamble if there is one
SectionsAt(lines, headings) ==
    LET starts == headings \cup (IF HasPreamble(lines, headings) THEN {1} ELSE {})
        last(n) == IF n = Cardinality(starts) THEN Len(lines) ELSE Nth(starts, n + 1) - 1
    IN [n \in 1..Cardinality(starts) |->
            Strip(JoinLines(SubSeq(lines, Nth(starts, n), last(n))))]

\* "# A\nbody1", "## B\nbody2"
HeaderFixtureSections ==
    << <<HASH, SP, 65, NL, 98, 111, 100, 121, 49>>,
       <<HASH, HASH, SP, 66, NL, 98, 111, 100, 121, 50>> >>

\* C6 as stated: a section starts at a line iff the line matches
\* ^#{1,4}\s+.+$; as many sections as such lines, plus one for a preamble.
C6_Original ==
    SplitReturned =>
        LET lines == SplitLines(text)
        IN /\ SplitOutput = SectionsAt(lines, RawHeadings(lines))
           /\ Len(SplitOutput) = Cardinality(RawHeadings(lines))
                + (IF HasPreamble(lines, RawHeadings(lines)) THEN 1 ELSE 0)

\* C6 amended: a section starts at a line iff the line, trimmed of leading and
\* trailing whitespace, matches ^#{1,4}\s+.+$; there are as many sections as
\* such lines, plus one when non-whitespace text precedes the first, in source
\* order; "# A\nbody1\n## B\nbody2" gives "# A\nbody1" and "## B\nbody2".
C6_SplitAtTrimmedHeadings ==
    SplitReturned =>
        LET lines == SplitLines(text)
        IN /\ SplitOutput = SectionsAt(lines, TrimmedHeadings(lines))
           /\ Len(SplitOutput) = Cardinality(TrimmedHeadings(lines))
                + (IF HasPreamble(lines, TrimmedHeadings(lines)) THEN 1 ELSE 0)
           /\ text = HeaderFixture => SplitOutput = HeaderFixtureSections

\* a preamble and a heading line that matches only once trimmed
C6_Witness ==
    /\ SplitReturned
    /\ Len(SplitOutput) >= 2
    /\ HasPreamble(SplitLines(text), TrimmedHeadings(SplitLines(text)))
    /\ TrimmedHeadings(SplitLines(text)) # RawHeadings(SplitLines(text))

RECURSIVE PreMergeIndex(_)
PreMergeIndex(k) ==
    IF k = 1 THEN 0
    ELSE PreMergeIndex(k - 1)
            + (IF section_texts[k - 1] = sections_arg[PreMergeIndex(k - 1) + 1] THEN 1 ELSE 2)

\* C10 as stated: section_index is the position the chunk's (first) section had
\* in the segmenter output, before the merge.
C10_Original ==
    ChunkingDone =>
        \A k \in 1..Len(returned) : returned[k].metadata.section_index = PreMergeIndex(k)

\* C10 amended: section_index is the position of the chunk's section in the
\* list the merge returned, and so always equals chunk_index.
C10_SectionIndexAfterMerge ==
    ChunkingDone =>
        \A k \in 1..Len(returned) :
            LET si == returned[k].metadata.section_index
            IN /\ si = returned[k].metadata.chunk_index
               /\ si + 1 \in 1..Len(section_texts)
               /\ returned[k].page_content = _clean_table_formatting(Strip(section_texts[si + 1]))

\* a chunk that follows a merged pair
C10_Witness ==
    /\ ChunkingDone
    /\ \E k \in 1..Len(returned) : PreMergeIndex(k) # k - 1

\* the keys chunk_document sets in a chunk's metadata
ChunkKeys == {"chunk_index", "chunk_type", "original_length", "section_index"}

\* C11 as stated: every key/value pair of the source metadata is in the metadata
\* of every chunk, with chunk_type 'header_section' and original_length the
\* length of the raw content.
C11_Original ==
    ChunkingDone =>
        \A k \in 1..Len(returned) :
            /\ \A key \in DOMAIN document.metadata :
                  /\ key \in DOMAIN returned[k].metadata
                  /\ returned[k].metadata[key] = document.metadata[key]
            /\ returned[k].metadata.chunk_type = "header_section"
            /\ returned[k].metadata.original_length = Len(document.page_content)

\* C11 amended: every pair of the source metadata whose key is none of
\* chunk_index, chunk_type, original_length, section_index is in the metadata of
\* every chunk unchanged; chunk_type is 'header_section' and original_length the
\* length of the raw content, whatever the source metadata holds under those keys.
C11_MetadataCarried ==
    ChunkingDone =>
        \A k \in 1..Len(returned) :
            /\ \A key \in DOMAIN document.metadata \ ChunkKeys :
                  /\ key \in DOMAIN returned[k].metadata
                  /\ returned[k].metadata[key] = document.metadata[key]
            /\ DOMAIN returned[k].metadata = DOMAIN document.metadata \cup ChunkKeys
            /\ returned[k].metadata.chunk_type = "header_section"
            /\ returned[k].metadata.original_length = Len(document.page_content)

\* chunks of a document whose metadata has a key of its own and a chunk_type,
\* and whose raw content normalization shortened
C11_Witness ==
    /\ ChunkingDone
    /\ Len(returned) >= 1
    /\ "chunk_type" \in DOMAIN document.metadata
    /\ "source" \in DOMAIN document.metadata
    /\ Len(cleaned_text) < Len(document.page_content)

\* _is_table has returned
IsTableReturned == pc = "done" /\ call = "_is_table"

\* the number of '|' characters of a line
PipeCount(line) == Cardinality({k \in 1..Len(line) : line[k] = PIPE})

\* C12: _is_table(block) is true exactly when some single line of the block has
\* at least two '|' characters, or the block has a tab character, or the block
\* has the substring \begin{tabular}; "a\tb\tc" and "| h1 | h2 |\n|---|---|" are
\* tables and "plain prose sentence." is not.
C12_IsTableSignatures ==
    IsTableReturned =>
        /\ is_table <=>
              \/ \E l \in 1..Len(SplitLines(block)) : PipeCount(SplitLines(block)[l]) >= 2
              \/ \E k \in 1..Len(block) : block[k] = TAB
              \/ \E k \in 1..Len(block) :
                    /\ k + Len(BeginTabular) - 1 <= Len(block)
                    /\ SubSeq(block, k, k + Len(BeginTabular) - 1) = BeginTabular
        /\ block \in {TabFixture, PipeFixture} => is_table
        /\ block = ProseFixture => ~is_table

\* a block with two pipes, on different lines only, is no table
C12_Witness ==
    /\ IsTableReturned
    /\ PipeCount(block) >= 2
    /\ ~is_table

\* C13 as stated: a block containing an HTML <table> element is classified as
\* tabular.
C13_Original ==
    IsTableReturned /\ Contains(block, TableOpen) => is_table

\* C13 amended: a block containing an HTML <table> element is classified as
\* tabular only when it also has one of the three signatures the detector
\* knows: two pipes on one line, a tab, or \begin{tabular}.
C13_HtmlNotDetected ==
    IsTableReturned /\ Contains(block, TableOpen) =>
        (is_table <=>
            \/ \E l \in 1..Len(SplitLines(block)) : PipeCount(SplitLines(block)[l]) >= 2
            \/ Contains(block, <<TAB>>)
            \/ Contains(block, BeginTabular))

\* an HTML table without pipes, tabs or LaTeX is classified as prose
C13_Witness ==
    /\ IsTableReturned
    /\ block = HtmlTableFixture
    /\ ~is_table

\* _clean_table_formatting has returned to an outside caller
CleanTableReturned == pc = "done" /\ call = "_clean_table_formatting"

\* lit stands in s at position k
At(s, k, lit) == k >= 1 /\ k + Len(lit) - 1 <= Len(s) /\ SubSeq(s, k, k + Len(lit) - 1) = lit

\* the position after the <table>...</table> span that starts at k, 0 if none
\* starts there: the span ends with the first </table> after the opening tag
SpanEnd(s, k) ==
    IF At(s, k, TableOpen) /\ \E j \in (k + 7)..Len(s) : At(s, j, TableClose)
    THEN (CHOOSE j \in (k + 7)..Len(s) :
              /\ At(s, j, TableClose)
              /\ \A h \in (k + 7)..(j - 1) : ~At(s, h, TableClose)) + 8
    ELSE 0

\* the first position from pos on where a span starts, 0 if there is none
FirstSpan(s, pos) ==
    IF \E k \in pos..Len(s) : SpanEnd(s, k) > 0
    THEN CHOOSE k \in pos..Len(s) :
             SpanEnd(s, k) > 0 /\ \A h \in pos..(k - 1) : SpanEnd(s, h) = 0
    ELSE 0

\* out from position o on is the input s from pos on with every span replaced
\* by some text that is again one <table>...</table> element, not longer than
\* the span, and everything else left as it is
RECURSIVE OutsideKept(_, _, _, _)
OutsideKept(out, o, s, pos) ==
    LET a == FirstSpan(s, pos)
    IN IF a = 0
       THEN o <= Len(out) + 1 /\ SubSeq(out, o, Len(out)) = SubSeq(s, pos, Len(s))
       ELSE /\ At(out, o, SubSeq(s, pos, a - 1)) \/ (a = pos /\ o <= Len(out) + 1)
            /\ \E n \in 15..(SpanEnd(s, a) - a) :
                  /\ At(out, o + (a - pos), TableOpen)
                  /\ At(out, o + (a - pos) + n - 8, TableClose)
                  /\ OutsideKept(out, o + (a - pos) + n, s, SpanEnd(s, a))

\* C14: every character of the input outside the non-greedy, case-sensitive
\* <table>...</table> matches is in the output, unchanged and in the same
\* order, and an input without such a span is returned identical.
C14_OutsideTablesUntouched ==
    CleanTableReturned =>
        /\ OutsideKept(returned, 1, text, 1)
        /\ FirstSpan(text, 1) = 0 => returned = text

\* two spans were compacted and the text between them, which has whitespace
\* next to brackets, was not
C14_Witness ==
    /\ CleanTableReturned
    /\ text = TwoTables
    /\ Len(returned) < Len(text)
    /\ At(returned, FirstSpan(returned, 1) + 16, <<GT, SP, NL, LT>>)

\* the positions where the <table>...</table> spans of s start, from pos on
RECURSIVE SpanStarts(_, _)
SpanStarts(s, pos) ==
    IF FirstSpan(s, pos) = 0 THEN {}
    ELSE {FirstSpan(s, pos)} \cup SpanStarts(s, SpanEnd(s, FirstSpan(s, pos)))

\* the positions of the </tr> tags inside the spans of s
RowEnds(s) ==
    {k \in 1..Len(s) :
        /\ At(s, k, TrClose)
        /\ \E a \in SpanStarts(s, 1) : a <= k /\ k + 5 <= SpanEnd(s, a)}

\* the j-th smallest member of a set of numbers
Ranked(S, j) == CHOOSE x \in S : Cardinality({y \in S : y < x}) = j - 1

\* C15: within every <table>...</table> span, each </tr> that is followed by
\* whitespace in the input is followed by exactly one newline in the output.
C15_OneNewlineAfterRow ==
    CleanTableReturned =>
        \A j \in 1..Cardinality(RowEnds(text)) :
            IsSpace(text[Ranked(RowEnds(text), j) + 5]) =>
                /\ j <= Cardinality(RowEnds(returned))
                /\ LET p == Ranked(RowEnds(returned), j)
                   IN /\ returned[p + 5] = NL
                      /\ ~IsSpace(returned[p + 6])

\* C16 as stated: the fixture, merged with a minimum of 20 characters, gives 2
\* chunks, and chunk 0 is "# Section One\nShort." merged with the "## Sub"
\* subsection, "# Section One\nShort." being under 20 characters.
C16_Original ==
    call = "_merge_small_chunks" /\ pc = "done" /\ sections_arg = EndToEndSections
            /\ min_chunk_size = 20 =>
          /\ Len(returned) = 2
          /\ returned[1] = SectionOne \o <<NL, NL>> \o SubSection
          /\ Len(SectionOne) < 20

\* C16 amended: normalization leaves the fixture as it is and segmentation
\* gives "Intro line.", "# Section One\nShort." and the "## Sub" subsection;
\* the merge with a minimum of 20 (and with the default of 100, which is what
\* chunk_document uses) gives 2 sections: the first is "Intro line.", which is
\* under 20 characters, merged with "# Section One\nShort.", which is exactly
\* 20 characters long, and the second is the "## Sub" subsection; they are the
\* contents of the 2 chunks chunk_document returns for the fixture.
C16_EndToEndFixture ==
    /\ call = "_merge_small_chunks" /\ pc = "done" /\ sections_arg = EndToEndSections
            /\ min_chunk_size \in {20, DefaultMinChunkSize} =>
          returned = <<IntroSection \o <<NL, NL>> \o SectionOne, SubSection>>
    /\ ChunkingDone /\ document.page_content = EndToEndFixture =>
          /\ cleaned_text = EndToEndFixture
          /\ sections_arg = EndToEndSections
          /\ Len(returned) = 2
          /\ Contents(returned) = <<IntroSection \o <<NL, NL>> \o SectionOne, SubSection>>
    /\ Len(IntroSection) < 20
    /\ Len(SectionOne) = 20

\* chunk_document has chunked the fixture
C16_Witness ==
    /\ ChunkingDone
    /\ document.page_content = EndToEndFixture
    /\ Len(returned) = 2

\* the stages that may follow a stage of chunk_document that did not raise
StageAfter(stage) ==
    CASE stage = "clean" -> {"split"}
      [] stage = "split" -> {"merge_call"}
      [] stage = "merge_call" -> {"merge", "sections"}
      [] stage = "merge" -> {"merge", "sections"}
      [] stage = "sections" -> {"assemble"}
      [] stage = "assemble" -> {"done"}
      [] OTHER -> {}

\* C17: chunk_document runs its stages once each in the order normalize,
\* segment, merge, compact, assemble, without a retry; when a stage raises the
\* call ends with the exception, no chunk list is returned, and nothing runs
\* after it.
C17_FailFast ==
    [][call = "chunk_document" =>
          /\ pc' \in StageAfter(pc) \cup {"raised"}
          /\ pc' = pc => i' > i
          /\ (error' # "none") <=> (pc' = "raised")
          /\ pc' = "raised" => returned' = <<>> /\ error' = pc]_vars

\* the compaction stage raised after the earlier stages had run
C17_Witness ==
    /\ call = "chunk_document"
    /\ pc = "raised"
    /\ error = "sections"
    /\ returned = <<>>
    /\ document.page_content = HeaderFixture

\* chunk_all_documents has returned
BatchDone == pc = "done" /\ call = "chunk_all_documents"

\* the number of chunks of the first k documents of the batch
RECURSIVE ChunksBefore(_)
ChunksBefore(k) ==
    IF k = 0 THEN 0 ELSE ChunksBefore(k - 1) + Len(chunk_document(documents[k]))

\* C19: chunk_all_documents(docs) is the concatenation, in input order, of
\* chunk_document(d) for each d; the chunks of one document stand in the order
\* of its text, chunk_index starts at 0 again for every document, and a
\* document's chunks are the same whatever was chunked before it.
C19_BatchIsConcatenation ==
    BatchDone =>
        /\ returned = Concat([k \in 1..Len(documents) |-> chunk_document(documents[k])])
        /\ Len(returned) = ChunksBefore(Len(documents))
        /\ \A k \in 1..Len(documents) :
              LET mine == SubSeq(returned, ChunksBefore(k - 1) + 1, ChunksBefore(k))
              IN /\ \A j \in 1..Len(mine) :
                        /\ mine[j].metadata.chunk_index = j - 1
                        /\ mine[j].metadata.source = documents[k].metadata.source
                 /\ NoSpace(Concat(Contents(mine))) = NoSpace(documents[k].page_content)
                 /\ \A h \in 1..Len(documents) :
                        documents[h] = documents[k] =>
                            mine = SubSeq(returned, ChunksBefore(h - 1) + 1, ChunksBefore(h))

\* a batch of two different documents, the second one with two chunks
C19_Witness ==
    /\ BatchDone
    /\ Len(documents) = 2
    /\ documents[1] # documents[2]
    /\ Len(returned) = 3
    /\ returned[2].metadata.chunk_index = 0
    /\ returned[3].metadata.chunk_index = 1

\* C18: when the chunking of one document of a batch fails, the batch goes on
\* with the next document: chunk_all_documents still returns, with the chunks
\* of the other documents of the batch, for embedding and indexing.
C18_BatchSurvivesFailure ==
    /\ call = "chunk_all_documents" /\ error # "none" /\ pc \in {"done", "raised"}
    /\ \E k \in 1..Len(documents) :
          k # doc_index + 1 /\ chunk_document(documents[k]) # <<>>
    =>  /\ pc = "done"
        /\ returned =
              Concat([k \in 1..Len(documents) |->
                         IF k = doc_index + 1 THEN <<>> ELSE chunk_document(documents[k])])

\* extract_all_documents is running or has ended
Extracting == call = "extract_all_documents"

\* a document of the blob is in the list
HasDocumentOf(docs, blob_name) == \E k \in 1..Len(docs) : docs[k].metadata.source = blob_name

\* C20: in extract_all_documents a blob's state becomes 'processed' only after
\* its own download and extraction succeeded; a blob whose download or
\* extraction raised keeps its state, pending, and has no document in the
\* list, and the blobs after it are still gone through; a blob whose state
\* update alone failed has its document in the list and stays pending; the
\* list returned holds the documents of exactly the other two kinds of blob.
C20_ProcessedAfterExtraction ==
    [][Extracting' =>
          /\ \A n \in DOMAIN blobs :
                blobs'[n] # blobs[n] =>
                    /\ pc = "update"
                    /\ n = blob_docs[blob_index + 1]
                    /\ HasDocumentOf(documents, n)
                    /\ StateOf(blobs[n]) = "pending"
                    /\ StateOf(blobs'[n]) = "processed"
          /\ Len(outcomes') = blob_index'
          /\ \A k \in 1..Len(outcomes') :
                LET n == blob_docs'[k]
                IN CASE outcomes'[k] = "extraction failed" ->
                            /\ StateOf(blobs'[n]) = "pending"
                            /\ ~HasDocumentOf(documents', n)
                     [] outcomes'[k] = "update failed" ->
                            /\ StateOf(blobs'[n]) = "pending"
                            /\ HasDocumentOf(documents', n)
                     [] OTHER ->
                            /\ StateOf(blobs'[n]) = "processed"
                            /\ HasDocumentOf(documents', n)
          /\ pc' = "done" =>
                /\ Len(outcomes') = Len(blob_docs')
                /\ returned' =
                      [k \in 1..Len(returned') |-> ExtractedDocument(returned'[k].metadata.source)]
                /\ \A k \in 1..Len(blob_docs') :
                      HasDocumentOf(returned', blob_docs'[k])
                          <=> outcomes'[k] # "extraction failed"
          /\ pc' = "raised" => error' = "list" /\ blobs' = blobs]_vars

\* the extraction of the first pending blob failed, the state update of the
\* second one failed, and the call returned the document of the second only
C20_Witness ==
    /\ Extracting
    /\ pc = "done"
    /\ outcomes = <<"extraction failed", "update failed">>
    /\ Len(returned) = 1
    /\ returned[1].metadata.source = blob_docs[2]
    /\ \A n \in DOMAIN blobs : StateOf(blobs[n]) = "pending"

\* add_all_embeddings_to_documents is running or has ended
Embedding == call = "add_all_embeddings_to_documents"

\* the embedding client answered every batch so far with one vector per text
ClientKeepsCount == \A b \in 1..Len(embed_outcomes) : embed_outcomes[b] # "short"

\* the batch the j-th text belongs to
BatchOf(j) == ((j - 1) \div batch_size) + 1

\* the positions of the texts whose batch did not raise
Embedded == {j \in 1..Len(chunks) : embed_outcomes[BatchOf(j)] = "ok"}

\* C22: with a client that answers one vector per text, generate_embeddings_batch
\* returns one entry per text in input order, None for every text of a batch
\* whose call raised, every later batch being tried all the same, and
\* add_all_embeddings_to_documents returns exactly the documents whose entry is
\* not None, in their order, each with its own vector and its other metadata
\* unchanged.
C22_EmbeddingsAligned ==
    Embedding /\ pc \in {"attach", "done"} /\ ClientKeepsCount =>
        /\ Len(all_embeddings) = Len(chunks)
        /\ Len(embed_outcomes) = (Len(chunks) + batch_size - 1) \div batch_size
        /\ \A j \in 1..Len(chunks) :
              all_embeddings[j] =
                  IF embed_outcomes[BatchOf(j)] = "raises"
                  THEN NoEmbedding
                  ELSE SomeEmbedding(ClientVector(chunks[j].page_content))
        /\ pc = "done" =>
              /\ Len(returned) = Cardinality(Embedded)
              /\ \A r \in 1..Len(returned) :
                    LET doc == chunks[Ranked(Embedded, r)]
                    IN /\ returned[r].page_content = doc.page_content
                       /\ returned[r].metadata.embedding = ClientVector(doc.page_content)
                       /\ returned[r].metadata.embedding_dimension = 2
                       /\ DOMAIN returned[r].metadata =
                              DOMAIN doc.metadata \cup {"embedding", "embedding_dimension"}
                       /\ \A key \in DOMAIN doc.metadata :
                              returned[r].metadata[key] = doc.metadata[key]

\* three different chunks in batches of one: the second batch raised, the
\* third was still tried, and the first and third documents were returned
C22_Witness ==
    /\ Embedding
    /\ pc = "done"
    /\ batch_size = 1
    /\ Len(chunks) = 3
    /\ chunks[1] # chunks[3]
    /\ embed_outcomes = <<"ok", "raises", "ok">>
    /\ Len(returned) = 2
    /\ returned[2].page_content = chunks[3].page_content

\* ------------------------------------------------------------------ C21
Pipeline == call = "run_full_pipeline"

\* where run_full_pipeline stands in stages 2 to 4
LaterStages ==
    ChunkStages \cup {"chunk_call", "next_document", "embed_call", "embed", "attach",
                      "index_call", "prepare", "upload"}

\* the blob has a chunk in the search index
Indexed(n) == \E d \in search_index : d.source = n

\* C21: in run_full_pipeline a blob's state changes only in stage 1, to
\* 'processed', when nothing of the run has been chunked, embedded or prepared
\* for the index; stages 2 to 4 start after the last listed blob had its turn
\* and leave every blob's state alone, and no step takes a blob out of
\* 'processed'; the listing of a run holds no blob that is 'processed'.
C21_ProcessedBeforeChunking ==
    [][Pipeline =>
          /\ \A n \in DOMAIN blobs :
                /\ blobs'[n] # blobs[n] =>
                      /\ pc = "update"
                      /\ StateOf(blobs'[n]) = "processed"
                      /\ all_chunks = <<>> /\ chunks = <<>> /\ search_documents = <<>>
                /\ StateOf(blobs[n]) = "processed" => StateOf(blobs'[n]) = "processed"
          /\ pc \in LaterStages => blobs' = blobs /\ blob_index = Len(blob_docs)
          /\ pc = "list" /\ pc' # "raised" =>
                \A n \in DOMAIN blobs :
                    StateOf(blobs[n]) = "processed" =>
                        \A k \in 1..Len(blob_docs') : blob_docs'[k] # n]_vars

\* the first run marked a blob and ended by an exception in chunking; the later
\* run listed only the other blob, marked it, and ended with indexing
\* returning False: both blobs are 'processed' and neither has a chunk in the
\* index
C21_Witness ==
    /\ Pipeline
    /\ pc = "done"
    /\ ~pipeline_success
    /\ run_log # <<>>
    /\ run_log[1].error \in ChunkStages
    /\ run_log[1].marked = {BlobNames[1]}
    /\ blob_docs = <<BlobNames[2]>>
    /\ outcomes = <<"processed">>
    /\ upload_outcomes # <<>>
    /\ \A n \in DOMAIN blobs : StateOf(blobs[n]) = "processed" /\ ~Indexed(n)

\* ------------------------------------------------------------------ C23
\* index_all_documents has returned, to its caller or to run_full_pipeline
IndexingReturned ==
    \/ call = "index_all_documents" /\ pc = "done"
    \/ Pipeline /\ pc \in {"report", "done"}

\* the positions of the input documents that carry an embedding
WithEmbedding ==
    {k \in 1..Len(documents_with_embeddings) :
        "embedding" \in DOMAIN documents_with_embeddings[k].metadata}

\* the batches whose upload reported a document as succeeded
GoodBatches == {b \in 1..Len(upload_outcomes) : upload_outcomes[b].succeeded # {}}

\* C23: index_all_documents returns True exactly when some batch upload
\* reported a document as succeeded; with no input document carrying an
\* embedding it returns False and uploads nothing; otherwise every batch of
\* the documents with an embedding is tried, also after a batch whose upload
\* raised, which adds nothing to the index; and run_full_pipeline returns what
\* index_all_documents returned.
C23_TrueIffSomeSucceeded ==
    /\ IndexingReturned =>
          /\ success <=> GoodBatches # {}
          /\ WithEmbedding = {} => ~success /\ upload_outcomes = <<>>
          /\ WithEmbedding # {} =>
                Len(upload_outcomes) =
                    (Cardinality(WithEmbedding) + indexing_batch_size - 1)
                        \div indexing_batch_size
          /\ \A b \in 1..Len(upload_outcomes) :
                upload_outcomes[b].raised => upload_outcomes[b].succeeded = {}
    /\ Pipeline /\ pc = "done" => (pipeline_success <=> GoodBatches # {})

\* a pipeline run with indexing batches of one over the chunks of two
\* documents, both with an embedding: the first upload raised, the second
\* reported its document as succeeded, and run_full_pipeline returned True
\* with one document in the index
C23_Witness ==
    /\ Pipeline
    /\ pc = "done"
    /\ indexing_batch_size = 1
    /\ Len(documents) = 2
    /\ Cardinality(WithEmbedding) = 2
    /\ upload_outcomes = <<[raised |-> TRUE, succeeded |-> {}],
                           [raised |-> FALSE, succeeded |-> {1}]>>
    /\ pipeline_success
    /\ Cardinality(search_index) = 1

\* ------------------------------------------------------------------ C24
Recreating == call = "recreate_azure_index"

\* the j-th call on the client was op and it returned
ReturnedAt(j, op) ==
    j <= Len(client_calls) /\ client_calls[j] = [op |-> op, raised |-> FALSE]

\* the j-th call on the client was op and it raised
RaisedAt(j, op) ==
    j <= Len(client_calls) /\ client_calls[j] = [op |-> op, raised |-> TRUE]

\* get_index_schema returned the schema
SchemaFetched == ReturnedAt(1, "get_index")

\* delete_index returned True: there was nothing to delete as far as its
\* get_index told, or the deletion returned
DeleteReturnedTrue == RaisedAt(2, "get_index") \/ ReturnedAt(3, "delete_index")

\* the index was deleted
Deleted == ReturnedAt(3, "delete_index")

\* where the call of index_client.create_index stands among the client's calls
CreateAt == IF RaisedAt(2, "get_index") THEN 3 ELSE 4

\* fetch, delete, create in this order: a deletion is the third call, after a
\* fetched schema and a get_index that found the index; a creation comes after
\* a fetched schema and a delete_index that returned True; True is returned
\* only after all three steps succeeded
RecreateOrder ==
    /\ \A j \in 1..Len(client_calls) :
          /\ client_calls[j].op = "delete_index" =>
                j = 3 /\ SchemaFetched /\ ReturnedAt(2, "get_index")
          /\ client_calls[j].op = "create_index" =>
                j = CreateAt /\ SchemaFetched /\ DeleteReturnedTrue
          /\ client_calls[j].op \in {"get_index", "delete_index", "create_index"}
    /\ Deleted => index_schema = FetchedSchema
    /\ pc = "done" /\ recreate_success =>
          /\ SchemaFetched
          /\ DeleteReturnedTrue
          /\ ReturnedAt(CreateAt, "create_index")
          /\ ReturnedAt(CreateAt + 1, "get_index")
          /\ Len(client_calls) = CreateAt + 1
          /\ index_exists

\* create_index returned False: its create call raised, or the get_index after
\* it did
CreateFailed ==
    RaisedAt(CreateAt, "create_index")
        \/ (ReturnedAt(CreateAt, "create_index") /\ RaisedAt(CreateAt + 1, "get_index"))

\* C24 as stated: the steps run in the order fetch, delete, create, and
\* whenever create_index fails after the index was deleted, False is returned
\* and there is no index.
C24_Original ==
    Recreating =>
        /\ RecreateOrder
        /\ pc = "done" /\ Deleted /\ CreateFailed => ~recreate_success /\ ~index_exists

\* C24: the steps run in the order fetch, delete, create; when the create call
\* raises after the index was deleted, False is returned and there is no
\* index; when the create call returned and only the get_index after it
\* raised, False is returned as well and the index is there.
C24_FetchDeleteCreate ==
    Recreating =>
        /\ RecreateOrder
        /\ pc = "done" /\ Deleted /\ RaisedAt(CreateAt, "create_index") =>
              ~recreate_success /\ ~index_exists
        /\ pc = "done" /\ Deleted /\ ReturnedAt(CreateAt, "create_index")
              /\ RaisedAt(CreateAt + 1, "get_index") =>
              ~recreate_success /\ index_exists

\* the schema was fetched, the index deleted, and the create call raised:
\* False was returned and the index is gone
C24_Witness ==
    /\ Recreating
    /\ pc = "done"
    /\ client_calls = <<[op |-> "get_index", raised |-> FALSE],
                        [op |-> "get_index", raised |-> FALSE],
                        [op |-> "delete_index", raised |-> FALSE],
                        [op |-> "create_index", raised |-> TRUE]>>
    /\ ~recreate_success
    /\ ~index_exists

====
